---- MODULE Spec2Model ----
(***************************************************************************)
(* Model of lilac's batch transcoder (cli/src/transcode.rs): the format    *)
(* sniffer `detect`, the per-file pipeline `transcode` and the rayon batch *)
(* driver `main`, over a small Unix-like file system.                      *)
(*                                                                         *)
(* Strings and paths are sequences of one-character strings, byte streams  *)
(* are sequences of integers 0..255, Option<T> is <<>> (None) or <<x>>.    *)
(***************************************************************************)
EXTENDS Integers, Sequences, FiniteSets, TLC

(* Number of entries the glob matches in one batch. *)
NumFiles == 2
(* Number of I/O operations the environment fails in one batch. *)
MaxFaults == 1

None == <<>>
Some(x) == <<x>>

(* ---------------------------------------------------------------------- *)
(* String constants                                                        *)
(* ---------------------------------------------------------------------- *)
S_lilac == <<"l", "i", "l", "a", "c">>
S_mp3 == <<"m", "p", "3">>
S_flac == <<"f", "l", "a", "c">>
S_ogg == <<"o", "g", "g">>
S_wav == <<"w", "a", "v">>
S_Unknown == <<"U", "n", "k", "n", "o", "w", "n">>

(* transcode.rs:9-13 *)
MP3_MAGIC_NUMBERS == << <<255, 251>>, <<255, 243>>, <<255, 242>>, <<73, 68, 51>> >>
FLAC_MAGIC_NUMBER == <<102, 76, 97, 67>>
OGG_MAGIC_NUMBER == <<79, 103, 103, 83>>
WAV_MAGIC_NUMBER == <<87, 65, 86, 69>>
WAV_MAGIC_NUMBER_OFFSET == 8

Max(a, b) == IF a >= b THEN a ELSE b

(* ---------------------------------------------------------------------- *)
(* str and Path helpers of the Rust standard library, as the code uses them*)
(* ---------------------------------------------------------------------- *)

(* str::to_lowercase on the letters that occur in the modelled names *)
LowerChar(c) ==
    CASE c = "M" -> "m" [] c = "P" -> "p" [] c = "W" -> "w" [] c = "A" -> "a"
      [] c = "V" -> "v" [] c = "T" -> "t" [] c = "E" -> "e" [] c = "F" -> "f"
      [] OTHER -> c

to_lowercase(s) == [k \in 1..Len(s) |-> LowerChar(s[k])]

StartsWith(s, p) == Len(s) >= Len(p) /\ SubSeq(s, 1, Len(p)) = p

(* str::replace: every non-overlapping match of `from`, left to right *)
RECURSIVE replace(_, _, _)
replace(s, from, to) ==
    IF Len(s) < Len(from) THEN s
    ELSE IF StartsWith(s, from)
         THEN to \o replace(SubSeq(s, Len(from) + 1, Len(s)), from, to)
         ELSE <<s[1]>> \o replace(Tail(s), from, to)

(* index of the last occurrence of character c in s, 0 when there is none *)
RECURSIVE LastIndexOf(_, _)
LastIndexOf(s, c) ==
    IF s = <<>> THEN 0
    ELSE IF s[Len(s)] = c THEN Len(s)
    ELSE LastIndexOf(SubSeq(s, 1, Len(s) - 1), c)

(* Path::file_name: the component after the last separator *)
file_name(p) == SubSeq(p, LastIndexOf(p, "/") + 1, Len(p))

(* Path::parent: everything before the last separator ("" for a bare name) *)
parent(p) == SubSeq(p, 1, Max(LastIndexOf(p, "/") - 1, 0))

(* Path::extension: after the last '.', unless the name has none or only    *)
(* starts with one                                                          *)
extension(p) ==
    LET n == file_name(p)
        d == LastIndexOf(n, ".")
    IN  IF d <= 1 THEN None ELSE Some(SubSeq(n, d + 1, Len(n)))

(* Path::file_stem: the name without its extension *)
file_stem(p) ==
    LET n == file_name(p)
        d == LastIndexOf(n, ".")
    IN  IF n = <<>> THEN None
        ELSE IF d <= 1 THEN Some(n) ELSE Some(SubSeq(n, 1, d - 1))

(* Path::join: an absolute right-hand side replaces the left-hand side *)
join(p, q) ==
    IF StartsWith(q, <<"/">>) \/ p = <<>> THEN q ELSE p \o <<"/">> \o q

(* the directories create_dir_all(p) makes sure exist: p and its ancestors *)
RECURSIVE Ancestors(_)
Ancestors(p) == IF p = <<>> THEN {} ELSE {p} \cup Ancestors(parent(p))

(* ---------------------------------------------------------------------- *)
(* Byte streams and the readers over them                                  *)
(* ---------------------------------------------------------------------- *)

(* length of the sniffing buffer, transcode.rs:107-112 *)
RECURSIVE FoldMaxLen(_, _)
FoldMaxLen(ns, max) ==
    IF ns = <<>> THEN max ELSE FoldMaxLen(Tail(ns), Max(max, Len(Head(ns))))

magic_numer_len ==
    Max(Max(Max(FoldMaxLen(MP3_MAGIC_NUMBERS, 0), Len(FLAC_MAGIC_NUMBER)),
            Len(OGG_MAGIC_NUMBER)),
        WAV_MAGIC_NUMBER_OFFSET + Len(WAV_MAGIC_NUMBER))

(* v[a..b] panics when a > b or b > len, otherwise it is bytes a+1..b *)
SlicePanics(v, a, b) == a > b \/ b > Len(v)
Slice(v, a, b) == SubSeq(v, a + 1, b)

(* Read::read_exact of n bytes at position pos: fails (UnexpectedEof) when  *)
(* fewer than n bytes are left                                              *)
read_exact(bytes, pos, n) ==
    IF Len(bytes) - pos < n
    THEN [ok |-> FALSE, buf |-> <<>>, pos |-> Len(bytes)]
    ELSE [ok |-> TRUE, buf |-> SubSeq(bytes, pos + 1, pos + n), pos |-> pos + n]

(* a seek that leaves the position where it is *)
SeekStartStale(pos, target) == pos

(* Seek::seek(SeekFrom::Start(target)) from position pos *)
SeekStart(pos, target) == target

(* ---------------------------------------------------------------------- *)
(* File contents, containers and the codec adapters                        *)
(*                                                                         *)
(* A file content is [bytes, fmt, meta, audio]: its leading bytes (the     *)
(* whole stream when it is shorter than the sniffing buffer), the format   *)
(* its payload really is ("junk" when it is none), the tags it carries and *)
(* an identifier of the audio it holds.                                    *)
(* ---------------------------------------------------------------------- *)
NoMeta == [title |-> None, artist |-> None, album |-> None]

EmptyContent == [bytes |-> <<>>, fmt |-> "junk", meta |-> NoMeta, audio |-> 0]

Decoded(c, meta) ==
    [ok |-> TRUE,
     lilac |-> Some([title |-> meta.title, artist |-> meta.artist,
                     album |-> meta.album, audio |-> c.audio])]
DecodeErr == [ok |-> FALSE, lilac |-> None]

(* Lilac::read, lib.rs:54-56: serde_json over the stream from pos *)
Lilac_read(c, pos) ==
    IF c.fmt = "lilac" /\ pos = 0 THEN Decoded(c, c.meta) ELSE DecodeErr

(* Lilac::from_mp3, lib.rs:148-194: the tag is looked for at pos (an absent *)
(* tag is not an error), then the reader is rewound and the frames decoded  *)
from_mp3(c, pos) ==
    IF c.fmt = "mp3"
    THEN Decoded(c, IF pos = 0 THEN c.meta ELSE NoMeta)
    ELSE DecodeErr

(* Lilac::from_flac, lib.rs:213-249 *)
from_flac(c, pos) ==
    IF c.fmt = "flac" /\ pos = 0 THEN Decoded(c, c.meta) ELSE DecodeErr

(* Lilac::from_ogg, lib.rs:268-313 *)
from_ogg(c, pos) ==
    IF c.fmt = "ogg" /\ pos = 0 THEN Decoded(c, c.meta) ELSE DecodeErr

(* Lilac::from_wav, lib.rs:332-349: a WAV stream carries no tags *)
from_wav(c, pos) ==
    IF c.fmt = "wav" /\ pos = 0 THEN Decoded(c, NoMeta) ELSE DecodeErr

Adapter(format, c, pos) ==
    CASE format = "Lilac" -> Lilac_read(c, pos)
      [] format = "Mp3" -> from_mp3(c, pos)
      [] format = "Flac" -> from_flac(c, pos)
      [] format = "Ogg" -> from_ogg(c, pos)
      [] format = "Wav" -> from_wav(c, pos)

(* Lilac::title / artist / album, lib.rs:68-76 *)
title(l) == IF l.title = None THEN S_Unknown ELSE l.title[1]
artist(l) == IF l.artist = None THEN S_Unknown ELSE l.artist[1]
album(l) == IF l.album = None THEN S_Unknown ELSE l.album[1]

(* first bytes serde_json::to_writer_pretty emits: {\n  "title":            *)
JsonHead == <<123, 10, 32, 32, 34, 116, 105, 116, 108, 101, 34, 58>>
(* RIFF chunk header hound writes: RIFF, chunk size, WAVE                   *)
RiffHead == <<82, 73, 70, 70, 36, 0, 0, 0, 87, 65, 86, 69>>

(* Lilac::write, lib.rs:61-63 *)
Lilac_write(l) ==
    [bytes |-> JsonHead, fmt |-> "lilac",
     meta |-> [title |-> l.title, artist |-> l.artist, album |-> l.album],
     audio |-> l.audio]

(* Lilac::to_wav, lib.rs:355-369 *)
to_wav(l) == [bytes |-> RiffHead, fmt |-> "wav", meta |-> NoMeta, audio |-> l.audio]

(* ---------------------------------------------------------------------- *)
(* detect, transcode.rs:106-133                                            *)
(* ---------------------------------------------------------------------- *)
MatchesMp3(magic_number) ==
    \E k \in 1..Len(MP3_MAGIC_NUMBERS) :
        Slice(magic_number, 0, Len(MP3_MAGIC_NUMBERS[k])) = MP3_MAGIC_NUMBERS[k]

(* the tag the if-chain of lines 118-131 selects, "panic" when evaluating a *)
(* condition panics                                                         *)
Classify(magic_number) ==
    IF MatchesMp3(magic_number) THEN "Mp3"
    ELSE IF FLAC_MAGIC_NUMBER = Slice(magic_number, 0, Len(FLAC_MAGIC_NUMBER))
    THEN "Flac"
    ELSE IF OGG_MAGIC_NUMBER = Slice(magic_number, 0, Len(OGG_MAGIC_NUMBER))
    THEN "Ogg"
    ELSE IF SlicePanics(magic_number, WAV_MAGIC_NUMBER_OFFSET, Len(WAV_MAGIC_NUMBER))
    THEN "panic"
    ELSE IF WAV_MAGIC_NUMBER
              = Slice(magic_number, WAV_MAGIC_NUMBER_OFFSET, Len(WAV_MAGIC_NUMBER))
    THEN "Wav"
    ELSE "Lilac"

(* outcome of detect on content c: kind "io" (read_exact or seek failed),   *)
(* "panic", "decode" (the adapter failed) or "ok"; sniffed is the number of *)
(* bytes read for sniffing and handPos the position at the hand-off         *)
Detect(c) ==
    LET rd == read_exact(c.bytes, 0, magic_numer_len)
        pos == SeekStart(rd.pos, 0)
        tag == Classify(rd.buf)
        base == [kind |-> "io", format |-> "-", lilac |-> None,
                 sniffed |-> rd.pos, handPos |-> -1]
    IN  IF ~rd.ok THEN base
        ELSE IF tag = "panic" THEN [base EXCEPT !.kind = "panic"]
        ELSE LET d == Adapter(tag, c, pos)
             IN  [kind |-> IF d.ok THEN "ok" ELSE "decode", format |-> tag,
                  lilac |-> d.lilac, sniffed |-> rd.pos, handPos |-> pos]

(* ---------------------------------------------------------------------- *)
(* transcode, transcode.rs:39-104: the pure parts                          *)
(* ---------------------------------------------------------------------- *)
RecognizedFormat(ext) ==
    CASE ext = S_lilac -> "Lilac"
      [] ext = S_mp3 -> "Mp3"
      [] ext = S_flac -> "Flac"
      [] ext = S_ogg -> "Ogg"
      [] ext = S_wav -> "Wav"
      [] OTHER -> "-"

(* selection that falls back to detect when the named adapter fails *)
FallbackSelectAndDecode(filename, c) ==
    LET e == extension(filename)
        f == IF e = None THEN "-" ELSE RecognizedFormat(to_lowercase(e[1]))
        d == IF f = "-" THEN DecodeErr ELSE Adapter(f, c, 0)
    IN  IF d.ok
        THEN [kind |-> "ok", format |-> f, lilac |-> d.lilac,
              sniffed |-> 0, handPos |-> 0, via |-> "ext"]
        ELSE [via |-> "sniff"] @@ Detect(c)

(* lines 42-55: adapter by extension, detect otherwise *)
SelectAndDecode(filename, c) ==
    LET e == extension(filename)
        f == IF e = None THEN "-" ELSE RecognizedFormat(to_lowercase(e[1]))
    IN  IF f # "-"
        THEN LET d == Adapter(f, c, 0)
             IN  [kind |-> IF d.ok THEN "ok" ELSE "decode", format |-> f,
                  lilac |-> d.lilac, sniffed |-> 0, handPos |-> 0, via |-> "ext"]
        ELSE [via |-> "sniff"] @@ Detect(c)

(* lines 66-72: the %E token *)
OutputExtension(format) == IF format = "Lilac" THEN S_wav ELSE S_lilac

(* lines 73-82: the %e token *)
InputExtension(format) ==
    CASE format = "Lilac" -> S_lilac
      [] format = "Mp3" -> S_mp3
      [] format = "Flac" -> S_flac
      [] format = "Ogg" -> S_ogg
      [] format = "Wav" -> S_wav

(* lines 57-85: the chain of str::replace calls over the template *)
OutputName(output, stem, format, l) ==
    LET r1 == replace(output, <<"%", "F">>, stem)
        r2 == replace(r1, <<"%", "E">>, OutputExtension(format))
        r3 == replace(r2, <<"%", "e">>, InputExtension(format))
        r4 == replace(r3, <<"%", "T">>, title(l))
        r5 == replace(r4, <<"%", "A">>, artist(l))
    IN  replace(r5, <<"%", "a">>, album(l))

(* lines 86-89 *)
OutFile(filename, output, format, l) ==
    join(parent(filename), OutputName(output, file_stem(filename)[1], format, l))

(* an encoder choice that ignores the tag *)
EncoderAlwaysCanonical(format) == "lilac"

(* lines 95-98: the encoder by format tag *)
Encoder(format) == IF format = "Lilac" THEN "wav" ELSE "lilac"

Encode(format, l) == IF Encoder(format) = "wav" THEN to_wav(l) ELSE Lilac_write(l)

(* ---------------------------------------------------------------------- *)
(* The directory the glob runs over                                        *)
(* ---------------------------------------------------------------------- *)
Meta(t, ar, al) == [title |-> t, artist |-> ar, album |-> al]

Id3Head == <<73, 68, 51, 4, 0, 0, 0, 0, 0, 0, 0, 0>>
FlacHead == <<102, 76, 97, 67, 0, 0, 0, 34, 16, 0, 16, 0>>
OggHead == <<79, 103, 103, 83, 0, 2, 0, 0, 0, 0, 0, 0>>

P_song_mp3 == <<"s", "o", "n", "g", ".", "m", "p", "3">>
P_song_flac == <<"s", "o", "n", "g", ".", "f", "l", "a", "c">>
P_c_ogg == <<"c", ".", "o", "g", "g">>
P_x_lilac == <<"x", ".", "l", "i", "l", "a", "c">>
P_x_wav == <<"x", ".", "w", "a", "v">>
P_d_n == <<"d", "/", "n">>
P_j_txt == <<"j", ".", "t", "x", "t">>
P_s == <<"s">>
P_b_MP3 == <<"b", ".", "M", "P", "3">>
P_w == <<"w">>
P_unreadable == <<"u", "/", "*">>

(* entries the glob iterator can yield: Ok(path) of an existing file with   *)
(* its content, or Err(GlobError) for a directory it could not read         *)
Entries ==
    << [kind |-> "path", path |-> P_song_mp3,
        content |-> [bytes |-> Id3Head, fmt |-> "mp3", audio |-> 1,
                     meta |-> Meta(Some(<<"S", "o", "n", "g">>),
                                   Some(<<"A", "r", "t", "i", "s", "t">>), None)]],
       [kind |-> "path", path |-> P_song_flac,
        content |-> [bytes |-> FlacHead, fmt |-> "flac", audio |-> 2,
                     meta |-> Meta(Some(<<"%", "A">>), Some(<<"Q">>), None)]],
       [kind |-> "path", path |-> P_c_ogg,
        content |-> [bytes |-> OggHead, fmt |-> "junk", audio |-> 3, meta |-> NoMeta]],
       [kind |-> "path", path |-> P_x_lilac,
        content |-> [bytes |-> JsonHead, fmt |-> "lilac", audio |-> 4,
                     meta |-> Meta(Some(<<"X">>), None, Some(<<"L">>))]],
       [kind |-> "path", path |-> P_x_wav,
        content |-> [bytes |-> RiffHead, fmt |-> "wav", audio |-> 5, meta |-> NoMeta]],
       [kind |-> "path", path |-> P_d_n,
        content |-> [bytes |-> OggHead, fmt |-> "ogg", audio |-> 6,
                     meta |-> Meta(None, Some(<<"B">>), None)]],
       [kind |-> "path", path |-> P_j_txt,
        content |-> [bytes |-> JsonHead, fmt |-> "lilac", audio |-> 7, meta |-> NoMeta]],
       [kind |-> "path", path |-> P_s,
        content |-> [bytes |-> <<123, 125>>, fmt |-> "junk", audio |-> 8, meta |-> NoMeta]],
       [kind |-> "path", path |-> P_b_MP3,
        content |-> [bytes |-> FlacHead, fmt |-> "flac", audio |-> 9, meta |-> NoMeta]],
       [kind |-> "path", path |-> P_w,
        content |-> [bytes |-> RiffHead, fmt |-> "wav", audio |-> 10, meta |-> NoMeta]],
       [kind |-> "globerr", path |-> P_unreadable, content |-> EmptyContent] >>

(* output patterns: the default, the input's own name, the pattern of the   *)
(* documentation's example, and one that names a sub-directory              *)
Patterns ==
    { <<"%", "F", ".", "%", "E">>,
      <<"%", "F", ".", "%", "e">>,
      <<"%", "F", " ", "(", "%", "T", " ", "b", "y", " ", "%", "A", ")", ".", "%", "E">>,
      <<"o", "/", "%", "a", ".", "%", "E">> }

(* ---------------------------------------------------------------------- *)
(* State                                                                   *)
(* ---------------------------------------------------------------------- *)
VARIABLES
    files,      \* the entries the glob matched (indices into Entries), sorted
    output,     \* the output pattern
    keep,       \* the retention flag
    fs,         \* directory entries: path -> inode number
    inode,      \* inode number -> content
    dirs,       \* the directories that exist
    pc,         \* per entry: the step of transcode its worker is at
    job,        \* per entry: the locals of its transcode call and its outcome
    batch,      \* "running", "printing", "done" or "panicked"
    results,    \* the collected Vec of outcomes
    printed,    \* number of outcomes printed so far
    faults      \* number of I/O operations the environment has failed so far

(* the library under a caller that decodes one stream, builds the sample   *)
(* source of the container and drains it, or serializes the container      *)
VARIABLES
    input,      \* the stream handed to the library and the adapter it goes to
    lilac,      \* the decoded container (Option)
    source,     \* the LilacSource built from the container (Option)
    yielded,    \* the results of the calls of next() so far that were Some
    ended,      \* number of calls of next() that returned None
    written,    \* the document Lilac::write produced (Option)
    lpc         \* "idle", "start", "decoded", "failed", "playing", "panicked", "written"

libvars == <<input, lilac, source, yielded, ended, written, lpc>>

(* the interactive player *)
VARIABLES
    args,       \* the files named on the command line (indices into PlayerLibrary)
    queue,      \* Queue: the loaded songs and the cursor
    state,      \* State: what draw() shows
    sink,       \* the rodio Sink: the song whose source it holds, volume, paused
    stopwatch,  \* Stopwatch: time, time since `started`, running
    ppc         \* "idle", "loading", "loop", "returned", "failed", "panicked"

playervars == <<args, queue, state, sink, stopwatch, ppc>>

(* the polling thread of the interactive player *)
VARIABLES
    last_tick,  \* the time, in ms, that has passed since the Instant last_tick
    timeout,    \* the timeout event::poll was called with
    event,      \* the terminal event event::read returned (Option)
    tx,         \* the events sent on the channel, oldest first
    tpc         \* "idle", "top", "poll", "read", "check", "returned", "exited", "panicked"

pollvars == <<last_tick, timeout, event, tx, tpc>>

PollIdle ==
    /\ last_tick = 0 /\ timeout = 0 /\ event = <<>> /\ tx = <<>> /\ tpc = "idle"

others == <<libvars, playervars, pollvars>>

tvars == <<files, output, keep, fs, inode, dirs, pc, job, batch, results, printed,
           faults>>

vars == <<files, output, keep, fs, inode, dirs, pc, job, batch, results, printed,
          faults, others>>

(* the player is not running *)
PlayerIdle ==
    /\ args = <<>> /\ queue = <<>> /\ state = <<>> /\ sink = <<>>
    /\ stopwatch = <<>> /\ ppc = "idle"

(* the library is not in use while the batch transcoder runs *)
LibIdle ==
    /\ input = <<>> /\ lilac = <<>> /\ source = <<>> /\ yielded = <<>>
    /\ ended = 0 /\ written = <<>> /\ lpc = "idle"

Workers == 1..NumFiles

NoOutcome == [status |-> "none", stage |-> "-", inp |-> <<>>, out |-> <<>>]
OkOutcome(i, o) == [status |-> "ok", stage |-> "-", inp |-> i, out |-> o]
ErrOutcome(stage) == [status |-> "err", stage |-> stage, inp |-> <<>>, out |-> <<>>]

IdleJob ==
    [reader |-> 0, read |-> EmptyContent, lilac |-> None, format |-> "-",
     via |-> "-", sniffed |-> 0, handPos |-> -1, outfile |-> <<>>,
     extE |-> <<>>, writer |-> 0, encoder |-> "-", fault |-> FALSE,
     outcome |-> NoOutcome]

(* strictly increasing index tuples: the glob yields each entry once, sorted *)
Selections ==
    {sel \in [Workers -> 1..Len(Entries)] :
        \A a, b \in Workers : a < b => sel[a] < sel[b]}

Content(p) == inode[fs[p]]
Exists(p) == p \in DOMAIN fs

(* the entry worker i is given, and the filename transcode is called with *)
Entry(i) == Entries[files[i]]
filename(i) == Entry(i).path

Init ==
    /\ files \in Selections
    /\ output \in Patterns
    /\ keep \in BOOLEAN
    /\ fs = [p \in {filename(i) : i \in {j \in Workers : Entry(j).kind = "path"}}
               |-> CHOOSE i \in Workers : filename(i) = p]
    /\ inode = [n \in {i \in Workers : Entry(i).kind = "path"} |-> Entry(n).content]
    /\ dirs = UNION {Ancestors(parent(filename(i))) : i \in Workers}
    /\ pc = [i \in Workers |-> "open"]
    /\ job = [i \in Workers |-> IdleJob]
    /\ batch = "running"
    /\ results = <<>>
    /\ printed = 0
    /\ faults = 0
    /\ LibIdle
    /\ PlayerIdle
    /\ PollIdle

(* whether the environment may fail the next I/O operation *)
IoFailure == IF faults < MaxFaults THEN BOOLEAN ELSE {FALSE}


(* the steps of transcode with the input removed before the output exists *)
StepAfterRemoveFirst(step) ==
    CASE step = "open" -> "decode"
      [] step = "decode" -> IF keep THEN "mkdir" ELSE "remove"
      [] step = "remove" -> "mkdir"
      [] step = "mkdir" -> "create"
      [] step = "create" -> "write"
      [] step = "write" -> "ok"

(* transcode, lines 40-103: the order of the steps; every step is left      *)
(* early by `?` on failure (Fail)                                           *)
StepAfter(step) ==
    CASE step = "open" -> "decode"
      [] step = "decode" -> "mkdir"
      [] step = "mkdir" -> "create"
      [] step = "create" -> "write"
      [] step = "write" -> IF keep THEN "ok" ELSE "remove"
      [] step = "remove" -> "ok"

Fail(i, stage, io) ==
    /\ pc' = [pc EXCEPT ![i] = "err"]
    /\ job' = [job EXCEPT ![i].outcome = ErrOutcome(stage),
                          ![i].fault = job[i].fault \/ io]
    /\ faults' = IF io THEN faults + 1 ELSE faults

(* main, line 19: an Err(GlobError) entry becomes a failure outcome without *)
(* transcode being called                                                   *)
GlobError(i) ==
    /\ batch = "running" /\ pc[i] = "open" /\ Entry(i).kind = "globerr"
    /\ Fail(i, "glob", FALSE)
    /\ UNCHANGED others
    /\ UNCHANGED <<files, output, keep, fs, inode, dirs, batch, results, printed>>

(* transcode, line 40: File::open *)
Open(i) ==
    /\ batch = "running" /\ pc[i] = "open" /\ Entry(i).kind = "path"
    /\ \E io \in IoFailure :
        IF io \/ ~Exists(filename(i))
        THEN Fail(i, "open", io)
        ELSE /\ pc' = [pc EXCEPT ![i] = StepAfter("open")]
             /\ job' = [job EXCEPT ![i].reader = fs[filename(i)]]
             /\ faults' = faults
    /\ UNCHANGED others
    /\ UNCHANGED <<files, output, keep, fs, inode, dirs, batch, results, printed>>

(* transcode, lines 42-89: select the adapter, decode, name the output *)
Decode(i) ==
    /\ batch = "running" /\ pc[i] = "decode"
    /\ LET c == inode[job[i].reader]
           r == SelectAndDecode(filename(i), c)
           seen == [job[i] EXCEPT !.read = c, !.via = r.via, !.format = r.format,
                                  !.sniffed = r.sniffed, !.handPos = r.handPos]
       IN  IF r.kind = "panic"
           THEN /\ pc' = [pc EXCEPT ![i] = "panicked"]
                /\ job' = [job EXCEPT ![i] = seen]
           ELSE IF r.kind # "ok"
           THEN /\ pc' = [pc EXCEPT ![i] = "err"]
                /\ job' = [job EXCEPT ![i] =
                       [seen EXCEPT !.outcome =
                           ErrOutcome(IF r.kind = "io" THEN "sniff" ELSE "decode")]]
           ELSE IF file_stem(filename(i)) = None
           THEN /\ pc' = [pc EXCEPT ![i] = "err"]
                /\ job' = [job EXCEPT ![i] =
                       [seen EXCEPT !.lilac = r.lilac, !.outcome = ErrOutcome("name")]]
           ELSE /\ pc' = [pc EXCEPT ![i] = StepAfter("decode")]
                /\ job' = [job EXCEPT ![i] =
                       [seen EXCEPT !.lilac = r.lilac,
                                    !.extE = OutputExtension(r.format),
                                    !.outfile = OutFile(filename(i), output,
                                                        r.format, r.lilac[1])]]
    /\ UNCHANGED others
    /\ UNCHANGED <<files, output, keep, fs, inode, dirs, batch, results, printed,
                   faults>>

(* transcode, lines 91-93: create_dir_all on the output's parent; for the   *)
(* empty path it returns Ok without touching the file system                *)
Mkdir(i) ==
    /\ batch = "running" /\ pc[i] = "mkdir"
    /\ \E io \in IF parent(job[i].outfile) = <<>> THEN {FALSE} ELSE IoFailure :
        LET p == parent(job[i].outfile)
        IN  IF io \/ \E a \in Ancestors(p) : Exists(a)
            THEN Fail(i, "mkdir", io) /\ dirs' = dirs
            ELSE /\ dirs' = dirs \cup Ancestors(p)
                 /\ pc' = [pc EXCEPT ![i] = StepAfter("mkdir")]
                 /\ UNCHANGED <<job, faults>>
    /\ UNCHANGED others
    /\ UNCHANGED <<files, output, keep, fs, inode, batch, results, printed>>

(* File::create inside to_wav_file / write_file (lib.rs:65, 372): the file  *)
(* is created, or truncated when the path already exists                    *)
Create(i) ==
    /\ batch = "running" /\ pc[i] = "create"
    /\ \E io \in IoFailure :
        LET o == job[i].outfile
            n == IF Exists(o) THEN fs[o] ELSE NumFiles + i
        IN  IF io \/ o \in dirs \/ (parent(o) # <<>> /\ parent(o) \notin dirs)
            THEN Fail(i, "encode", io) /\ UNCHANGED <<fs, inode>>
            ELSE /\ fs' = [p \in DOMAIN fs \cup {o} |-> IF p = o THEN n ELSE fs[p]]
                 /\ inode' = [m \in DOMAIN inode \cup {n} |->
                                IF m = n THEN EmptyContent ELSE inode[m]]
                 /\ pc' = [pc EXCEPT ![i] = StepAfter("create")]
                 /\ job' = [job EXCEPT ![i].writer = n]
                 /\ faults' = faults
    /\ UNCHANGED others
    /\ UNCHANGED <<files, output, keep, dirs, batch, results, printed>>

(* transcode, lines 95-100 and 103: encode into the created file; with the  *)
(* retention flag set the call returns Ok right after                       *)
Write(i) ==
    /\ batch = "running" /\ pc[i] = "write"
    /\ \E io \in IoFailure :
        IF io
        THEN Fail(i, "encode", io) /\ inode' = inode
        ELSE /\ inode' = [inode EXCEPT ![job[i].writer] =
                            Encode(job[i].format, job[i].lilac[1])]
             /\ pc' = [pc EXCEPT ![i] = StepAfter("write")]
             /\ job' = [job EXCEPT
                    ![i].encoder = Encoder(job[i].format),
                    ![i].outcome = IF StepAfter("write") = "ok"
                                   THEN OkOutcome(filename(i), job[i].outfile)
                                   ELSE job[i].outcome]
             /\ faults' = faults
    /\ UNCHANGED others
    /\ UNCHANGED <<files, output, keep, fs, dirs, batch, results, printed>>

(* transcode, lines 100-103: remove_file on the input, then Ok *)
Remove(i) ==
    /\ batch = "running" /\ pc[i] = "remove"
    /\ \E io \in IoFailure :
        IF io \/ ~Exists(filename(i))
        THEN Fail(i, "remove", io) /\ fs' = fs
        ELSE /\ fs' = [p \in DOMAIN fs \ {filename(i)} |-> fs[p]]
             /\ pc' = [pc EXCEPT ![i] = StepAfter("remove")]
             /\ job' = [job EXCEPT
                    ![i].outcome = IF StepAfter("remove") = "ok"
                                   THEN OkOutcome(filename(i), job[i].outfile)
                                   ELSE job[i].outcome]
             /\ faults' = faults
    /\ UNCHANGED others
    /\ UNCHANGED <<files, output, keep, inode, dirs, batch, results, printed>>

(* a panic in a worker is re-raised in main by rayon: collect never returns *)
PropagatePanic ==
    /\ batch = "running"
    /\ \E i \in Workers : pc[i] = "panicked"
    /\ batch' = "panicked"
    /\ UNCHANGED others
    /\ UNCHANGED <<files, output, keep, fs, inode, dirs, pc, job, results, printed,
                   faults>>

(* a collect that returns as soon as one worker has returned *)
CollectEarly ==
    /\ batch = "running"
    /\ \E i \in Workers : pc[i] \in {"ok", "err"}
    /\ results' = [k \in Workers |-> job[k].outcome]
    /\ batch' = "printing"
    /\ UNCHANGED others
    /\ UNCHANGED <<files, output, keep, fs, inode, dirs, pc, job, printed, faults>>

(* main, lines 17-20: collect returns once every worker has returned, with  *)
(* one element per entry; the order of the Vec (the bridge guarantees none) *)
(* is not modelled, element k stands for the outcome of entry k             *)
Collect ==
    /\ batch = "running"
    /\ \A i \in Workers : pc[i] \in {"ok", "err"}
    /\ results' = [k \in Workers |-> job[k].outcome]
    /\ batch' = "printing"
    /\ UNCHANGED others
    /\ UNCHANGED <<files, output, keep, fs, inode, dirs, pc, job, printed, faults>>

(* main, lines 21-26: one line per outcome *)
Report ==
    /\ batch = "printing" /\ printed < Len(results)
    /\ printed' = printed + 1
    /\ UNCHANGED others
    /\ UNCHANGED <<files, output, keep, fs, inode, dirs, pc, job, batch, results,
                   faults>>

(* main, line 28 *)
Return ==
    /\ batch = "printing" /\ printed = Len(results)
    /\ batch' = "done"
    /\ UNCHANGED others
    /\ UNCHANGED <<files, output, keep, fs, inode, dirs, pc, job, results, printed,
                   faults>>

Next ==
    \/ \E i \in Workers : GlobError(i)
    \/ \E i \in Workers : Open(i)
    \/ \E i \in Workers : Decode(i)
    \/ \E i \in Workers : Mkdir(i)
    \/ \E i \in Workers : Create(i)
    \/ \E i \in Workers : Write(i)
    \/ \E i \in Workers : Remove(i)
    \/ PropagatePanic
    \/ Collect
    \/ Report
    \/ Return

Spec == Init /\ [][Next]_vars

TypeOK ==
    /\ batch \in {"running", "printing", "done", "panicked"}
    /\ \A i \in Workers :
        pc[i] \in {"open", "decode", "mkdir", "create", "write", "remove",
                   "ok", "err", "panicked"}
    /\ printed \in 0..NumFiles
    /\ faults \in 0..MaxFaults

(* ---------------------------------------------------------------------- *)
(* Properties of the batch transcoder                                      *)
(* ---------------------------------------------------------------------- *)
Paths == {i \in Workers : Entry(i).kind = "path"}
Returned(i) == pc[i] \in {"ok", "err"}
BeforeRemoval == {"glob", "open", "sniff", "decode", "name", "mkdir", "encode"}

(* C1: the input file is removed only by its own worker and only after that *)
(* file's encode step succeeded; a file whose open, sniff, decode, mkdir or *)
(* encode step failed still exists, at the end of the batch and before,     *)
(* whatever the retention flag.                                             *)
C1_InputRemovedOnlyAfterEncode ==
    \A i \in Paths :
        /\ ~Exists(filename(i)) => job[i].encoder # "-"
        /\ (pc[i] = "err" /\ job[i].outcome.stage \in BeforeRemoval)
              => Exists(filename(i))

C1_Witness ==
    /\ ~keep /\ batch = "done"
    /\ \E i \in Paths : /\ job[i].outcome.stage = "encode"
                        /\ Exists(filename(i))
    /\ \E j \in Paths : pc[j] = "ok" /\ ~Exists(filename(j))

(* C2: when the batch is over, one outcome has been collected per matched   *)
(* entry, whichever files succeeded or failed.                              *)
C2_OneOutcomePerEntry ==
    batch \in {"done", "panicked"} => Len(results) = NumFiles

(* what transcode does to entry i when nothing else touches its files: the  *)
(* outcome, and the final content of its input and output paths (None for a *)
(* path that does not exist)                                                *)
Alone(i) ==
    LET c == Entry(i).content
        r == SelectAndDecode(filename(i), c)
    IN  IF r.kind = "panic"
        THEN [outcome |-> NoOutcome, outfile |-> <<>>, inp |-> Some(c), out |-> None]
        ELSE IF r.kind # "ok"
        THEN [outcome |-> ErrOutcome(IF r.kind = "io" THEN "sniff" ELSE "decode"),
              outfile |-> <<>>, inp |-> Some(c), out |-> None]
        ELSE LET o == OutFile(filename(i), output, r.format, r.lilac[1])
                 e == Encode(r.format, r.lilac[1])
             IN  [outcome |-> OkOutcome(filename(i), o), outfile |-> o,
                  inp |-> IF ~keep THEN None
                          ELSE IF o = filename(i) THEN Some(e) ELSE Some(c),
                  out |-> IF o = filename(i) /\ ~keep THEN None ELSE Some(e)]

FileNow(p) == IF Exists(p) THEN Some(Content(p)) ELSE None

(* C3: under every interleaving, a file the environment did not fail ends   *)
(* with the outcome and the input and output files it has when processed    *)
(* alone.                                                                   *)
C3_SameAsAlone ==
    batch = "done" =>
        \A i \in Paths :
            ~job[i].fault =>
                /\ job[i].outcome = Alone(i).outcome
                /\ FileNow(filename(i)) = Alone(i).inp
                /\ Alone(i).outfile # <<>> =>
                      FileNow(Alone(i).outfile) = Alone(i).out

(* C4: with the retention flag set, once transcode has returned for a file, *)
(* with either outcome and under every pattern, the input file exists with  *)
(* the content it had before.                                               *)
C4_KeepPreservesInput ==
    keep =>
        \A i \in Paths :
            Returned(i) =>
                /\ Exists(filename(i))
                /\ Content(filename(i)) = Entry(i).content

(* ---------------------------------------------------------------------- *)
(* Properties of adapter selection                                         *)
(* ---------------------------------------------------------------------- *)
Selected(i) == job[i].via # "-"

(* the documented signatures, read off a byte stream directly *)
At(b, off, sig) == Len(b) >= off + Len(sig) /\ SubSeq(b, off + 1, off + Len(sig)) = sig
HasMp3Signature(b) ==
    \/ At(b, 0, <<255, 251>>) \/ At(b, 0, <<255, 243>>) \/ At(b, 0, <<255, 242>>)
    \/ At(b, 0, <<73, 68, 51>>)
HasFlacSignature(b) == At(b, 0, <<102, 76, 97, 67>>)
HasOggSignature(b) == At(b, 0, <<79, 103, 103, 83>>)
HasWavSignature(b) == At(b, 8, <<87, 65, 86, 69>>)

(* the format a recognized extension names, "-" for any other file name *)
NamedFormatOfPath(p) ==
    LET HasExt(e) ==
            /\ Len(file_name(p)) > Len(e) + 1
            /\ p[Len(p) - Len(e)] = "."
            /\ to_lowercase(SubSeq(p, Len(p) - Len(e) + 1, Len(p))) = e
    IN  CASE HasExt(S_lilac) -> "Lilac"
          [] HasExt(S_mp3) -> "Mp3"
          [] HasExt(S_flac) -> "Flac"
          [] HasExt(S_ogg) -> "Ogg"
          [] HasExt(S_wav) -> "Wav"
          [] OTHER -> "-"

NamedFormats == [k \in 1..Len(Entries) |-> NamedFormatOfPath(Entries[k].path)]
NamedFormat(i) == NamedFormats[files[i]]

PayloadOf(format) ==
    CASE format = "Lilac" -> "lilac" [] format = "Mp3" -> "mp3"
      [] format = "Flac" -> "flac" [] format = "Ogg" -> "ogg"
      [] format = "Wav" -> "wav" [] OTHER -> "-"

(* C5: a stream without a recognized extension whose prefix matches no      *)
(* signature, of any length, is classified Canonical and handed to the      *)
(* canonical decoder; sniffing neither fails nor aborts.                    *)
C5_FallbackIsCanonical ==
    \A i \in Paths :
        LET b == job[i].read.bytes
        IN  (/\ Selected(i) /\ NamedFormat(i) = "-"
             /\ ~HasMp3Signature(b) /\ ~HasFlacSignature(b)
             /\ ~HasOggSignature(b) /\ ~HasWavSignature(b))
            => /\ pc[i] # "panicked"
               /\ job[i].outcome.stage # "sniff"
               /\ job[i].format = "Lilac"

(* C6: detect tags a stream by the first signature that matches, in the     *)
(* order MP3, FLAC, OGG, WAV; a stream with WAVE at offset 8 and no earlier *)
(* match is tagged Wav.                                                     *)
C6_MagicTableOrder ==
    \A i \in Paths :
        LET b == job[i].read.bytes
        IN  (Selected(i) /\ job[i].via = "sniff" /\ Len(b) >= magic_numer_len)
            => /\ HasMp3Signature(b) => job[i].format = "Mp3"
               /\ (~HasMp3Signature(b) /\ HasFlacSignature(b))
                     => job[i].format = "Flac"
               /\ (~HasMp3Signature(b) /\ ~HasFlacSignature(b) /\ HasOggSignature(b))
                     => job[i].format = "Ogg"
               /\ (/\ ~HasMp3Signature(b) /\ ~HasFlacSignature(b)
                   /\ ~HasOggSignature(b) /\ HasWavSignature(b))
                     => job[i].format = "Wav"

(* C7: a file whose extension is, in any letter case, one of lilac, mp3,    *)
(* flac, ogg, wav goes to that format's adapter with no byte read for       *)
(* sniffing; when its content is of another format the outcome is that      *)
(* adapter's decode failure.                                                *)
C7_ExtensionSelectsAdapter ==
    \A i \in Paths :
        (Selected(i) /\ NamedFormat(i) # "-")
        => /\ job[i].via = "ext"
           /\ job[i].sniffed = 0
           /\ job[i].format = NamedFormat(i)
           /\ job[i].read.fmt # PayloadOf(NamedFormat(i))
                 => /\ pc[i] = "err"
                    /\ job[i].outcome = ErrOutcome("decode")
                    /\ job[i].lilac = None

C7_Witness ==
    \E i \in Paths :
        /\ filename(i) = P_b_MP3
        /\ job[i].via = "ext" /\ job[i].format = "Mp3" /\ job[i].read.fmt = "flac"
        /\ job[i].outcome = ErrOutcome("decode")

(* C8: whenever detect hands the stream to an adapter, the stream position  *)
(* is 0, so a stream of the tagged format decodes.                          *)
C8_RewoundAtHandOff ==
    \A i \in Paths :
        (job[i].via = "sniff" /\ job[i].format # "-")
        => /\ job[i].handPos = 0
           /\ job[i].read.fmt = PayloadOf(job[i].format) => job[i].lilac # None

C8_Witness ==
    \E i \in Paths :
        /\ job[i].via = "sniff" /\ job[i].sniffed = magic_numer_len
        /\ job[i].format = "Ogg" /\ job[i].handPos = 0 /\ job[i].lilac # None

(* C9: the encoder follows the format tag alone: Canonical is written with  *)
(* the WAV encoder, every other tag with the canonical serializer, and %E   *)
(* is "wav" exactly when the WAV encoder is used, "lilac" otherwise.        *)
C9_EncoderByFormat ==
    \A i \in Paths :
        job[i].encoder # "-"
        => /\ job[i].encoder = "wav" <=> job[i].format = "Lilac"
           /\ job[i].encoder = "lilac"
                 <=> job[i].format \in {"Mp3", "Flac", "Ogg", "Wav"}
           /\ job[i].extE = S_wav <=> job[i].encoder = "wav"
           /\ job[i].extE = S_lilac <=> job[i].encoder = "lilac"

C9_Witness ==
    /\ \E i \in Paths : /\ job[i].format = "Lilac" /\ job[i].encoder = "wav"
                        /\ job[i].extE = S_wav
    /\ \E j \in Paths : /\ job[j].format = "Wav" /\ job[j].encoder = "lilac"
                        /\ job[j].extE = S_lilac

(* ---------------------------------------------------------------------- *)
(* Properties of the output name                                           *)
(* ---------------------------------------------------------------------- *)

(* the pattern read once from left to right, each token replaced by its     *)
(* value and every other character copied                                   *)
RECURSIVE Substituted(_, _)
Substituted(t, val) ==
    IF t = <<>> THEN <<>>
    ELSE IF Len(t) >= 2 /\ t[1] = "%" /\ t[2] \in DOMAIN val
    THEN val[t[2]] \o Substituted(SubSeq(t, 3, Len(t)), val)
    ELSE <<t[1]>> \o Substituted(Tail(t), val)

TokenValues(i) ==
    LET l == job[i].lilac[1]
    IN  [c \in {"F", "E", "e", "T", "A", "a"} |->
            CASE c = "F" -> file_stem(filename(i))[1]
              [] c = "E" -> IF job[i].format = "Lilac" THEN S_wav ELSE S_lilac
              [] c = "e" -> (CASE job[i].format = "Lilac" -> S_lilac
                               [] job[i].format = "Mp3" -> S_mp3
                               [] job[i].format = "Flac" -> S_flac
                               [] job[i].format = "Ogg" -> S_ogg
                               [] job[i].format = "Wav" -> S_wav)
              [] c = "T" -> IF l.title = None THEN S_Unknown ELSE l.title[1]
              [] c = "A" -> IF l.artist = None THEN S_Unknown ELSE l.artist[1]
              [] c = "a" -> IF l.album = None THEN S_Unknown ELSE l.album[1]]

(* C10: the output name is the pattern with every %F, %E, %e, %T, %A, %a    *)
(* replaced by its value ("Unknown" for absent tags) and every other        *)
(* character copied, resolved against the input's directory.                *)
C10_OutputName ==
    \A i \in Paths :
        job[i].lilac # None =>
            job[i].outfile =
                LET n == Substituted(output, TokenValues(i))
                    d == parent(filename(i))
                IN  IF d = <<>> THEN n ELSE d \o <<"/">> \o n

(* ====================================================================== *)
(* The library, lib.rs                                                     *)
(*                                                                         *)
(* A container is [title, artist, year, album, track, channels,            *)
(* sample_rate, bit_depth, samples]; tag values are TLA+ strings.          *)
(* ====================================================================== *)

(* number of calls of next() made after the source has ended *)
MaxEnded == 2

I32_MAX == 2147483647
I32_MIN == (-2147483647) - 1

RECURSIVE Pow2(_)
Pow2(k) == IF k = 0 THEN 1 ELSE 2 * Pow2(k - 1)

(* An f32 that holds an integer of magnitude at most 2^31 is [m, e], the   *)
(* value m * 2^e: e = 0 below 2^24, otherwise 2^23 <= |m| < 2^24.          *)
F32Zero == [m |-> 0, e |-> 0]

(* `x as f32` for the power of two x = 2^k, k <= 31 (always exact) *)
Pow2AsF32(k) == IF k < 24 THEN [m |-> Pow2(k), e |-> 0]
                ELSE [m |-> Pow2(23), e |-> k - 23]

(* a / 2^e rounded to the nearest integer, ties to the even one (a >= 0) *)
RoundHalfEven(a, e) ==
    LET d == Pow2(e)
        q == a \div d
        r == a % d
    IN  IF r > d - r THEN q + 1
        ELSE IF r < d - r THEN q
        ELSE IF q % 2 = 0 THEN q ELSE q + 1

(* `s as f32` for a 32-bit integer s: the nearest value with a 24-bit       *)
(* significand, ties to even                                                *)
AsF32(s) ==
    IF s = I32_MIN THEN [m |-> -Pow2(23), e |-> 8]
    ELSE LET a == IF s < 0 THEN -s ELSE s
             sign == IF s < 0 THEN -1 ELSE 1
             e == CHOOSE k \in 0..7 :
                     \/ k = 0 /\ a < Pow2(24)
                     \/ k > 0 /\ Pow2(23 + k) <= a /\ (k = 7 \/ a < Pow2(24 + k))
             q == RoundHalfEven(a, e)
         IN  IF e > 0 /\ q = Pow2(24) THEN [m |-> sign * Pow2(23), e |-> e + 1]
             ELSE [m |-> sign * q, e |-> e]

(* normalization with the positive divisor used on both sides *)
normalizeByMax(s, min, max) ==
    IF s = 0 THEN [num |-> F32Zero, den |-> Pow2AsF32(0)]
    ELSE [num |-> AsF32(s), den |-> max]

(* lib.rs:88-92, the closure mapped over the samples. The quotient of two   *)
(* f32 is kept as the pair [num, den] of its operands: it is exact when den *)
(* is a power of two, and is the value before its final rounding otherwise  *)
normalize(s, min, max) ==
    IF s < 0 THEN [num |-> AsF32(s), den |-> min]
    ELSE IF s = 0 THEN [num |-> F32Zero, den |-> Pow2AsF32(0)]
    ELSE [num |-> AsF32(s), den |-> max]

(* lib.rs:79: (2u32.pow(bit_depth - 1)) as f32, for bit_depth in 1..32 *)
SourceMin(bit_depth) == Pow2AsF32(bit_depth - 1)

(* lib.rs:80: (2u32.pow(bit_depth - 1) - 1) as f32, for bit_depth in 1..32 *)
SourceMax(bit_depth) ==
    IF bit_depth = 1 THEN F32Zero
    ELSE AsF32((Pow2(bit_depth - 2) - 1) + Pow2(bit_depth - 2))

(* the duration as samples / channels / sample_rate, in milliseconds *)
duration_msExact(samples_len, channels, sample_rate) ==
    IF channels = 0 \/ sample_rate = 0 THEN -1
    ELSE (samples_len * 1000) \div (channels * sample_rate)

(* lib.rs:94-96: the argument of Duration::from_millis, in u64 arithmetic;  *)
(* -1 when a divisor is zero (the division panics)                          *)
duration_ms(samples_len, channels, sample_rate) ==
    IF channels = 0 \/ sample_rate \div 1000 = 0 THEN -1
    ELSE (samples_len \div channels) \div (sample_rate \div 1000)

(* lib.rs:78-98, Lilac::source: None when it panics. The samples stay as    *)
(* codes behind the lazy map; pos is the position of the vec::IntoIter      *)
Lilac_source(l) ==
    IF l.bit_depth \notin 1..32
       \/ duration_ms(Len(l.samples), l.channels, l.sample_rate) < 0
    THEN None
    ELSE Some([channels |-> l.channels, sample_rate |-> l.sample_rate,
               samples |-> l.samples, pos |-> 0,
               min |-> SourceMin(l.bit_depth), max |-> SourceMax(l.bit_depth),
               duration |-> duration_ms(Len(l.samples), l.channels,
                                        l.sample_rate)])

(* an iterator that starts over when it reaches the end *)
LilacSource_nextRestarting(src) ==
    IF src.pos < Len(src.samples)
    THEN [item |-> Some(normalize(src.samples[src.pos + 1], src.min, src.max)),
          src |-> [src EXCEPT !.pos = (src.pos + 1) % Len(src.samples)]]
    ELSE [item |-> None, src |-> src]

(* lib.rs:113-115, LilacSource::next: the next element of the mapped        *)
(* iterator and the source after the call                                   *)
LilacSource_next(src) ==
    IF src.pos < Len(src.samples)
    THEN [item |-> Some(normalize(src.samples[src.pos + 1], src.min, src.max)),
          src |-> [src EXCEPT !.pos = src.pos + 1]]
    ELSE [item |-> None, src |-> src]

(* lib.rs:131-133 *)
total_duration(src) == Some(src.duration)

(* ---------------------------------------------------------------------- *)
(* The canonical representation: serde_json over the derived impls of      *)
(* struct Lilac (lib.rs:38-52)                                             *)
(*                                                                         *)
(* A document is [pretty, members]: whether it is laid out as              *)
(* to_writer_pretty lays it out, and its members <<name, value>> in text   *)
(* order. A value is [t, s, n, a]: its JSON type and its string, number or *)
(* array of numbers.                                                       *)
(* ---------------------------------------------------------------------- *)
JNull == [t |-> "null", s |-> "", n |-> 0, a |-> <<>>]
JStr(x) == [t |-> "str", s |-> x, n |-> 0, a |-> <<>>]
JNum(x) == [t |-> "num", s |-> "", n |-> x, a |-> <<>>]
JArr(x) == [t |-> "arr", s |-> "", n |-> 0, a |-> x]

U16_MAX == 65535

(* the member names after #[serde(rename_all = "camelCase")], in the order  *)
(* of the struct's fields                                                   *)
FieldNames == <<"title", "artist", "year", "album", "track", "channels",
                "sampleRate", "bitDepth", "samples">>

NoTags == [title |-> None, artist |-> None, year |-> None, album |-> None,
           track |-> None]

Container(tags, channels, sample_rate, bit_depth, samples) ==
    [title |-> tags.title, artist |-> tags.artist, year |-> tags.year,
     album |-> tags.album, track |-> tags.track, channels |-> channels,
     sample_rate |-> sample_rate, bit_depth |-> bit_depth, samples |-> samples]

LibErr == [ok |-> FALSE, lilac |-> None]
LibOk(l) == [ok |-> TRUE, lilac |-> Some(l)]

(* Lilac::read, lib.rs:54-56: the derived Deserialize. Members it does not  *)
(* know are skipped, a repeated member is an error, a missing or null       *)
(* Option member is None, every other member must be present and of its     *)
(* type and width                                                           *)
serde_from_reader(doc) ==
    LET ms == doc.members
        Known(k) == \E f \in 1..Len(FieldNames) : FieldNames[f] = ms[k][1]
        Dup == \E j, k \in 1..Len(ms) : j < k /\ Known(j) /\ ms[j][1] = ms[k][1]
        Has(name) == \E k \in 1..Len(ms) : ms[k][1] = name
        Get(name) == ms[CHOOSE k \in 1..Len(ms) : ms[k][1] = name][2]
        Absent(name) == ~Has(name) \/ Get(name).t = "null"
        StrOk(name) == Absent(name) \/ Get(name).t = "str"
        NumOk(name, lo, hi) ==
            Has(name) /\ Get(name).t = "num" /\ Get(name).n >= lo /\ Get(name).n <= hi
        OptStr(name) == IF Absent(name) THEN None ELSE Some(Get(name).s)
        OptNum(name) == IF Absent(name) THEN None ELSE Some(Get(name).n)
    IN  IF \/ Dup
           \/ ~StrOk("title") \/ ~StrOk("artist") \/ ~StrOk("album")
           \/ ~(Absent("year") \/ NumOk("year", I32_MIN, I32_MAX))
           \/ ~(Absent("track") \/ NumOk("track", 0, I32_MAX))
           \/ ~NumOk("channels", 0, U16_MAX)
           \/ ~NumOk("sampleRate", 0, I32_MAX)
           \/ ~NumOk("bitDepth", 0, I32_MAX)
           \/ ~(Has("samples") /\ Get("samples").t = "arr")
        THEN LibErr
        ELSE LibOk([title |-> OptStr("title"), artist |-> OptStr("artist"),
                    year |-> OptNum("year"), album |-> OptStr("album"),
                    track |-> OptNum("track"),
                    channels |-> Get("channels").n,
                    sample_rate |-> Get("sampleRate").n,
                    bit_depth |-> Get("bitDepth").n,
                    samples |-> Get("samples").a])

(* Lilac::write, lib.rs:61-63: the derived Serialize under                  *)
(* to_writer_pretty: every field in declaration order, None as null         *)
serde_to_writer_pretty(l) ==
    LET OptS(o) == IF o = None THEN JNull ELSE JStr(o[1])
        OptN(o) == IF o = None THEN JNull ELSE JNum(o[1])
    IN  [pretty |-> TRUE,
         members |-> << <<"title", OptS(l.title)>>, <<"artist", OptS(l.artist)>>,
                        <<"year", OptN(l.year)>>, <<"album", OptS(l.album)>>,
                        <<"track", OptN(l.track)>>,
                        <<"channels", JNum(l.channels)>>,
                        <<"sampleRate", JNum(l.sample_rate)>>,
                        <<"bitDepth", JNum(l.bit_depth)>>,
                        <<"samples", JArr(l.samples)>> >>]

(* ---------------------------------------------------------------------- *)
(* The codec adapters. A stream is [kind, doc, tag, fields, comments,      *)
(* channels, sample_rate, bits, frames, corrupt]: tag says whether its tag *)
(* or comment block is "absent", "present" or "malformed"; fields are the  *)
(* frames of an ID3 tag, comments the <<name, value>> list of a Vorbis     *)
(* comment block; frames are the audio frames or packets, each             *)
(* [channels, data]; corrupt says that the audio after them does not       *)
(* decode.                                                                 *)
(* ---------------------------------------------------------------------- *)

(* str::to_ascii_uppercase on the comment names that occur *)
to_ascii_uppercase(k) ==
    CASE k \in {"title", "Title", "TITLE"} -> "TITLE"
      [] k \in {"artist", "Artist", "ARTIST"} -> "ARTIST"
      [] k \in {"album", "ALBUM"} -> "ALBUM"
      [] k \in {"tracknumber", "TRACKNUMBER"} -> "TRACKNUMBER"
      [] OTHER -> k

(* str::parse::<u32> on the values that occur *)
parse_u32(v) ==
    CASE v = "3" -> Some(3)
      [] v = "7" -> Some(7)
      [] v = "12" -> Some(12)
      [] OTHER -> None

(* [&str]::join *)
RECURSIVE str_join(_, _)
str_join(xs, sep) ==
    IF xs = <<>> THEN ""
    ELSE IF Len(xs) = 1 THEN xs[1]
    ELSE xs[1] \o sep \o str_join(Tail(xs), sep)

RECURSIVE Concat(_)
Concat(frames) ==
    IF frames = <<>> THEN <<>> ELSE Head(frames).data \o Concat(Tail(frames))

(* claxon's FlacReader::get_tag: the values of the comments whose name      *)
(* equals the given one without regard to ASCII case, in stream order       *)
get_tag(comments, name) ==
    LET Sel(c) == to_ascii_uppercase(c[1]) = name
    IN  [k \in 1..Len(SelectSeq(comments, Sel)) |-> SelectSeq(comments, Sel)[k][2]]

(* from_mp3 with a missing tag treated like a malformed one *)
Lilac_from_mp3TagRequired(st) ==
    IF st.tag # "present" \/ st.frames = <<>> \/ st.corrupt THEN LibErr
    ELSE LibOk(Container(st.fields, Head(st.frames).channels, st.sample_rate, 16,
                         Concat(st.frames)))

(* Lilac::from_mp3, lib.rs:148-194 *)
Lilac_from_mp3(st) ==
    LET tags == IF st.tag = "present" THEN st.fields ELSE NoTags
    IN  IF st.tag = "malformed" THEN LibErr
        ELSE IF st.frames = <<>> THEN LibErr
        ELSE IF st.corrupt THEN LibErr
        ELSE LibOk(Container(tags, Head(st.frames).channels, st.sample_rate, 16,
                             Concat(st.frames)))

(* Lilac::from_flac, lib.rs:213-249 *)
Lilac_from_flac(st) ==
    LET cs == IF st.tag = "present" THEN st.comments ELSE <<>>
        titles == get_tag(cs, "TITLE")
        artists == get_tag(cs, "ARTIST")
        albums == get_tag(cs, "ALBUM")
        tracks == get_tag(cs, "TRACKNUMBER")
        tags == [title |-> IF titles = <<>> THEN None ELSE Some(titles[1]),
                 artist |-> IF artists # <<>> THEN Some(str_join(artists, ", "))
                            ELSE None,
                 year |-> None,
                 album |-> IF albums = <<>> THEN None ELSE Some(albums[1]),
                 track |-> IF tracks = <<>> THEN None ELSE parse_u32(tracks[1])]
    IN  IF st.tag = "malformed" THEN LibErr
        ELSE IF st.corrupt THEN LibErr
        ELSE LibOk(Container(tags, st.channels, st.sample_rate, st.bits,
                             Concat(st.frames)))

(* from_ogg, lines 271-288: the loop over the comment list *)
RECURSIVE OggComments(_, _)
OggComments(cs, acc) ==
    IF cs = <<>> THEN acc
    ELSE LET uk == to_ascii_uppercase(cs[1][1])
             v == cs[1][2]
         IN  OggComments(Tail(cs),
                IF uk = "TITLE" /\ acc.title = None
                THEN [acc EXCEPT !.title = Some(v)]
                ELSE IF uk = "ARTIST"
                THEN [acc EXCEPT !.artists = Append(acc.artists, v)]
                ELSE IF uk = "ALBUM" /\ acc.album = None
                THEN [acc EXCEPT !.album = Some(v)]
                ELSE IF uk = "TRACKNUMBER" /\ acc.track = None
                THEN [acc EXCEPT !.track = parse_u32(v)]
                ELSE acc)

(* Lilac::from_ogg, lib.rs:268-313 *)
Lilac_from_ogg(st) ==
    LET acc == OggComments(st.comments,
                   [title |-> None, artists |-> <<>>, album |-> None, track |-> None])
        tags == [title |-> acc.title,
                 artist |-> IF acc.artists # <<>>
                            THEN Some(str_join(acc.artists, ", ")) ELSE None,
                 year |-> None, album |-> acc.album, track |-> acc.track]
    IN  IF st.tag = "malformed" THEN LibErr
        ELSE IF st.corrupt THEN LibErr
        ELSE LibOk(Container(tags, st.channels, st.sample_rate, 16,
                             Concat(st.frames)))

(* Lilac::from_wav, lib.rs:332-349 *)
Lilac_from_wav(st) ==
    IF st.corrupt THEN LibErr
    ELSE LibOk(Container(NoTags, st.channels, st.sample_rate, st.bits,
                         Concat(st.frames)))

(* ---------------------------------------------------------------------- *)
(* The streams the library is handed                                       *)
(* ---------------------------------------------------------------------- *)

(* number of sample codes of the containers the duration is computed for *)
MaxLen == 4
(* number of comments of the Vorbis comment blocks *)
MaxComments == 2

Stream ==
    [kind |-> "-", doc |-> [pretty |-> TRUE, members |-> <<>>], tag |-> "absent",
     fields |-> NoTags, comments |-> <<>>, channels |-> 1, sample_rate |-> 1000,
     bits |-> 16, frames |-> <<>>, corrupt |-> FALSE]

Frame(channels, data) == [channels |-> channels, data |-> data]

(* the members of a document that holds all nine fields in struct order *)
Members(l) == serde_to_writer_pretty(l).members

Json(pretty, members) ==
    [Stream EXCEPT !.kind = "json", !.doc = [pretty |-> pretty, members |-> members]]

OmitNulls(ms) == SelectSeq(ms, LAMBDA m : m[2].t # "null")
Without(ms, name) == SelectSeq(ms, LAMBDA m : m[1] # name)

SomeTags == [title |-> Some("T"), artist |-> None, year |-> Some(1999),
             album |-> Some("L"), track |-> None]
AllTags == [title |-> Some("T"), artist |-> Some("A"), year |-> Some(1999),
            album |-> Some("L"), track |-> Some(3)]

(* the extreme, the central and some inexactly representable codes of each  *)
(* bit depth                                                                *)
Codes(b) ==
    CASE b = 8 -> <<-128, -127, -1, 0, 1, 126, 127>>
      [] b = 16 -> <<-32768, -32767, -1, 0, 1, 32766, 32767>>
      [] b = 24 -> <<-8388608, -8388607, -1, 0, 1, 8388606, 8388607>>
      [] b = 32 -> <<I32_MIN, I32_MIN + 1, -16777217, -1, 0, 1, 16777217,
                     16777219, 2147483519, I32_MAX - 1, I32_MAX>>

Zeros(n) == [k \in 1..n |-> 0]

JsonInputs ==
    {Json(TRUE, Members(Container(NoTags, 1, 1000, b, Codes(b)))) : b \in {8, 16, 24, 32}}
    \cup {Json(TRUE, Members(Container(NoTags, c, r, 16, Zeros(n)))) :
            n \in 0..MaxLen, c \in {1, 2}, r \in {1000, 1500, 2500, 44100}}
    \cup {Json(TRUE, Members(Container(NoTags, 1, 1000, 16, <<-32768, 0, 32767>>))),
          Json(TRUE, Members(Container(AllTags, 2, 2000, 16, <<1, -1>>))),
          Json(TRUE, Members(Container(SomeTags, 2, 2000, 16, <<1, -1>>))),
          Json(TRUE, OmitNulls(Members(Container(SomeTags, 2, 2000, 16, <<1, -1>>)))),
          Json(FALSE, Members(Container(SomeTags, 2, 2000, 16, <<1, -1>>))),
          Json(TRUE, <<<<"samples", JArr(<<5>>)>>, <<"bitDepth", JNum(8)>>,
                       <<"sampleRate", JNum(1000)>>, <<"channels", JNum(1)>>>>),
          Json(TRUE, <<<<"comment", JStr("c")>>>>
                       \o Members(Container(SomeTags, 2, 2000, 16, <<1, -1>>))),
          Json(TRUE, <<<<"channels", JNum(1)>>>>
                       \o Members(Container(NoTags, 2, 2000, 16, <<1, -1>>))),
          Json(TRUE, Without(Members(Container(NoTags, 1, 1000, 16, <<1>>)), "samples")),
          Json(TRUE, Members(Container(NoTags, 70000, 1000, 16, <<1>>))),
          Json(TRUE, Members(Container(NoTags, 2, 1000, 16, <<1, 2, 3>>))),
          Json(TRUE, Members(Container(NoTags, 1, 1000, 8, <<300>>))),
          Json(TRUE, Members(Container(NoTags, 1, 500, 16, <<1, 2>>))),
          Json(TRUE, Members(Container(NoTags, 0, 1000, 16, <<1, 2>>)))}

Mp3Inputs ==
    {[Stream EXCEPT !.kind = "mp3", !.tag = t, !.fields = AllTags, !.frames = f,
                    !.corrupt = c] :
        t \in {"absent", "present", "malformed"},
        f \in {<<>>, <<Frame(1, <<1, -2>>)>>,
               <<Frame(2, <<1, 2>>), Frame(2, <<-3, 4>>)>>},
        c \in BOOLEAN}

CommentNames == {"TITLE", "title", "ARTIST", "ALBUM", "TRACKNUMBER", "GENRE"}
CommentValues == {"3", "x"}
CommentLists ==
    UNION {[1..k -> {<<n, v>> : n \in CommentNames, v \in CommentValues}] :
             k \in 0..MaxComments}

VorbisInputs ==
    {[Stream EXCEPT !.kind = k, !.tag = "present", !.comments = cs,
                    !.channels = 2, !.frames = <<Frame(2, <<1, -1>>)>>] :
        k \in {"flac", "ogg"}, cs \in CommentLists}
    \cup {[Stream EXCEPT !.kind = k, !.tag = t, !.bits = b, !.corrupt = c,
                         !.frames = <<Frame(1, <<7>>), Frame(1, <<-7>>)>>] :
            k \in {"flac", "ogg"}, t \in {"absent", "malformed"}, b \in {16, 24},
            c \in BOOLEAN}

WavInputs ==
    {[Stream EXCEPT !.kind = "wav", !.bits = b, !.channels = ch, !.corrupt = c,
                    !.frames = <<Frame(ch, <<1, -1>>)>>] :
        b \in {8, 16}, ch \in {1, 2}, c \in BOOLEAN}

LibInputs == JsonInputs \cup Mp3Inputs \cup VorbisInputs \cup WavInputs

(* ---------------------------------------------------------------------- *)
(* The caller of the library                                               *)
(* ---------------------------------------------------------------------- *)
In == input[1]

(* the batch transcoder is not running while the library is exercised *)
TranscoderIdle ==
    /\ files = <<>> /\ output = <<>> /\ keep = FALSE /\ fs = <<>> /\ inode = <<>>
    /\ dirs = {} /\ pc = <<>> /\ job = <<>> /\ batch = "idle" /\ results = <<>>
    /\ printed = 0 /\ faults = 0

LibInit ==
    /\ TranscoderIdle
    /\ PlayerIdle
    /\ PollIdle
    /\ input \in {Some(st) : st \in LibInputs}
    /\ lilac = None /\ source = None /\ yielded = <<>> /\ ended = 0
    /\ written = None /\ lpc = "start"

notlib == <<tvars, playervars, pollvars>>

(* a call of Lilac::read on a canonical document *)
ReadCanonical ==
    /\ lpc = "start" /\ In.kind = "json"
    /\ lilac' = serde_from_reader(In.doc).lilac
    /\ lpc' = IF serde_from_reader(In.doc).ok THEN "decoded" ELSE "failed"
    /\ UNCHANGED <<input, source, yielded, ended, written>>
    /\ UNCHANGED notlib

(* a call of Lilac::from_mp3 *)
FromMp3 ==
    /\ lpc = "start" /\ In.kind = "mp3"
    /\ lilac' = Lilac_from_mp3(In).lilac
    /\ lpc' = IF Lilac_from_mp3(In).ok THEN "decoded" ELSE "failed"
    /\ UNCHANGED <<input, source, yielded, ended, written>>
    /\ UNCHANGED notlib

(* a call of Lilac::from_flac *)
FromFlac ==
    /\ lpc = "start" /\ In.kind = "flac"
    /\ lilac' = Lilac_from_flac(In).lilac
    /\ lpc' = IF Lilac_from_flac(In).ok THEN "decoded" ELSE "failed"
    /\ UNCHANGED <<input, source, yielded, ended, written>>
    /\ UNCHANGED notlib

(* a call of Lilac::from_ogg *)
FromOgg ==
    /\ lpc = "start" /\ In.kind = "ogg"
    /\ lilac' = Lilac_from_ogg(In).lilac
    /\ lpc' = IF Lilac_from_ogg(In).ok THEN "decoded" ELSE "failed"
    /\ UNCHANGED <<input, source, yielded, ended, written>>
    /\ UNCHANGED notlib

(* a call of Lilac::from_wav *)
FromWav ==
    /\ lpc = "start" /\ In.kind = "wav"
    /\ lilac' = Lilac_from_wav(In).lilac
    /\ lpc' = IF Lilac_from_wav(In).ok THEN "decoded" ELSE "failed"
    /\ UNCHANGED <<input, source, yielded, ended, written>>
    /\ UNCHANGED notlib

(* Lilac::source(self): the container is moved into the source *)
BuildSource ==
    /\ lpc = "decoded"
    /\ source' = Lilac_source(lilac[1])
    /\ lilac' = None
    /\ lpc' = IF Lilac_source(lilac[1]) = None THEN "panicked" ELSE "playing"
    /\ UNCHANGED <<input, yielded, ended, written>>
    /\ UNCHANGED notlib

(* one call of Iterator::next on the source *)
SourceNext ==
    /\ lpc = "playing" /\ ended < MaxEnded
    /\ LET r == LilacSource_next(source[1])
       IN  /\ source' = Some(r.src)
           /\ yielded' = IF r.item = None THEN yielded ELSE Append(yielded, r.item[1])
           /\ ended' = IF r.item = None THEN ended + 1 ELSE ended
    /\ UNCHANGED <<input, lilac, written, lpc>>
    /\ UNCHANGED notlib

(* Lilac::write(&self, writer) *)
WriteCanonical ==
    /\ lpc = "decoded"
    /\ written' = Some(serde_to_writer_pretty(lilac[1]))
    /\ lpc' = "written"
    /\ UNCHANGED <<input, lilac, source, yielded, ended>>
    /\ UNCHANGED notlib

LibNext ==
    \/ ReadCanonical
    \/ FromMp3
    \/ FromFlac
    \/ FromOgg
    \/ FromWav
    \/ BuildSource
    \/ SourceNext
    \/ WriteCanonical

LibSpec == LibInit /\ [][LibNext]_vars

LibTypeOK ==
    /\ lpc \in {"start", "decoded", "failed", "playing", "panicked", "written"}
    /\ ended \in 0..MaxEnded
    /\ Len(lilac) <= 1 /\ Len(source) <= 1 /\ Len(written) <= 1

(* ---------------------------------------------------------------------- *)
(* Properties of the sample source                                         *)
(* ---------------------------------------------------------------------- *)

(* what the stream handed in declares: read off the input, not the result *)
DocMember(name) ==
    LET ms == In.doc.members
    IN  ms[CHOOSE k \in 1..Len(ms) : ms[k][1] = name][2]

InputCodes == IF In.kind = "json" THEN DocMember("samples").a ELSE Concat(In.frames)
InputDepth ==
    IF In.kind = "json" THEN DocMember("bitDepth").n
    ELSE IF In.kind \in {"mp3", "ogg"} THEN 16 ELSE In.bits
InputChannels ==
    IF In.kind = "json" THEN DocMember("channels").n
    ELSE IF In.kind = "mp3" THEN Head(In.frames).channels ELSE In.channels
InputRate == IF In.kind = "json" THEN DocMember("sampleRate").n ELSE In.sample_rate

(* the least and the greatest code of bit depth b *)
LeastCode(b) ==
    CASE b = 8 -> -128 [] b = 16 -> -32768 [] b = 24 -> -8388608 [] b = 32 -> I32_MIN
GreatestCode(b) ==
    CASE b = 8 -> 127 [] b = 16 -> 32767 [] b = 24 -> 8388607 [] b = 32 -> I32_MAX

(* f is a 24-bit float nearest to the integer s *)
Nearest(f, s) ==
    LET d == Pow2(f.e)
        q == s \div d
        r == s % d
    IN  /\ f.m >= -Pow2(24) /\ f.m <= Pow2(24)
        /\ \/ f.m = q /\ 2 * r <= d
           \/ f.m = q + 1 /\ 2 * (d - r) <= d

(* a <= b for floats a, b >= 0 *)
F32Le(a, b) ==
    IF a.e >= b.e THEN a.m <= b.m \div Pow2(a.e - b.e)
    ELSE (a.m + Pow2(b.e - a.e) - 1) \div Pow2(b.e - a.e) <= b.m

F32Abs(a) == [a EXCEPT !.m = IF a.m < 0 THEN -a.m ELSE a.m]
F32Neg(a) == [a EXCEPT !.m = -a.m]

(* C11: for every bit depth b in {8, 16, 24, 32} and every in-range code s  *)
(* the value the source yields is s / 2^(b-1) for s < 0, exactly 0 for      *)
(* s = 0 and s / (2^(b-1) - 1) for s > 0, each operand being the f32        *)
(* nearest to it; it lies in [-1, 1], is -1 at the least code and 1 at the  *)
(* greatest.                                                                *)
C11_Normalized ==
    (lpc = "playing" /\ InputDepth \in {8, 16, 24, 32}) =>
        \A k \in 1..Len(yielded) :
            LET b == InputDepth
                s == InputCodes[k]
                v == yielded[k]
            IN  (s >= LeastCode(b) /\ s <= GreatestCode(b)) =>
                  /\ s < 0 => /\ Nearest(v.num, s)
                              /\ b < 32 => v.num = [m |-> s, e |-> 0]
                              /\ v.den.e = Max(b - 24, 0)
                              /\ (b = 8 => v.den.m = 128) /\ (b = 16 => v.den.m = 32768)
                              /\ (b >= 24 => v.den.m = 8388608)
                  /\ s = 0 => v.num.m = 0 /\ v.den.m > 0
                  /\ s > 0 => /\ Nearest(v.num, s)
                              /\ b < 32 => v.num = [m |-> s, e |-> 0]
                              /\ Nearest(v.den, GreatestCode(b))
                              /\ b < 32 => v.den = [m |-> GreatestCode(b), e |-> 0]
                  /\ F32Le(F32Abs(v.num), v.den)
                  /\ s = LeastCode(b) => v.num = F32Neg(v.den)
                  /\ s = GreatestCode(b) => v.num = v.den

C11_Witness ==
    /\ lpc = "playing" /\ InputDepth = 32 /\ InputCodes = Codes(32)
    /\ Len(yielded) = Len(Codes(32))
    /\ yielded[1].num = F32Neg(yielded[1].den)
    /\ yielded[Len(yielded)].num = yielded[Len(yielded)].den

(* C12: the source yields one value per sample code, in the container's     *)
(* order, each the normalization of the code at its index, and reports the  *)
(* end on every call after the last value; mono 16-bit codes                *)
(* [-32768, 0, 32767] yield [-1.0, 0.0, 1.0].                               *)
C12_OneValuePerCode ==
    lpc = "playing" =>
        /\ Len(yielded) <= Len(InputCodes)
        /\ \A k \in 1..Len(yielded) :
              yielded[k] = normalize(InputCodes[k], SourceMin(InputDepth),
                                     SourceMax(InputDepth))
        /\ ended > 0 => Len(yielded) = Len(InputCodes)
        /\ (/\ InputCodes = <<-32768, 0, 32767>> /\ InputDepth = 16
            /\ InputChannels = 1 /\ ended > 0)
              => yielded = << [num |-> [m |-> -32768, e |-> 0],
                               den |-> [m |-> 32768, e |-> 0]],
                              [num |-> [m |-> 0, e |-> 0], den |-> [m |-> 1, e |-> 0]],
                              [num |-> [m |-> 32767, e |-> 0],
                               den |-> [m |-> 32767, e |-> 0]] >>

C12_Witness ==
    /\ lpc = "playing" /\ ended = MaxEnded
    /\ InputCodes = <<-32768, 0, 32767>> /\ Len(yielded) = 3

(* C13: the duration the source reports is                                  *)
(* floor(floor(n / c) / floor(r / 1000)) milliseconds for n codes, c        *)
(* channels and rate r, which is not n / c / r, and it does not decrease    *)
(* when n grows.                                                            *)
C13_Duration ==
    lpc = "playing" =>
        LET n == Len(InputCodes)
            c == InputChannels
            r == InputRate
            d == source[1].duration
        IN  /\ c >= 1 /\ r \div 1000 >= 1
            /\ total_duration(source[1]) = Some((n \div c) \div (r \div 1000))
            /\ \A fewer \in 0..n :
                  LET l == Container(NoTags, c, r, InputDepth, Zeros(fewer))
                  IN  /\ Lilac_source(l) # None
                      /\ Lilac_source(l)[1].duration <= d

C13_Witness ==
    /\ lpc = "playing" /\ Len(InputCodes) = 3 /\ InputChannels = 1
    /\ InputRate = 1500 /\ source[1].duration = 3
    /\ (3 * 1000) \div (1 * 1500) = 2

(* ---------------------------------------------------------------------- *)
(* Properties of decoding and serialization                                *)
(* ---------------------------------------------------------------------- *)

(* C14: a container a decode or deserialization step produced has a sample  *)
(* count that is a multiple of its channel count (at least 1) and every     *)
(* code within the range of its bit depth.                                  *)
C14_DataModelInvariant ==
    lilac # None =>
        LET l == lilac[1]
        IN  /\ l.channels >= 1
            /\ Len(l.samples) % l.channels = 0
            /\ l.bit_depth \in {8, 16, 24, 32}
            /\ \A k \in 1..Len(l.samples) :
                  /\ l.samples[k] >= LeastCode(l.bit_depth)
                  /\ l.samples[k] <= GreatestCode(l.bit_depth)

(* a document the data model allows: laid out as the writer lays it out,    *)
(* members in field order, the four required ones present, the optional     *)
(* ones present, null or left out                                           *)
FieldIndex(name) == CHOOSE f \in 1..Len(FieldNames) : FieldNames[f] = name
ValidCanonical(doc) ==
    LET ms == doc.members
    IN  /\ doc.pretty
        /\ \A k \in 1..Len(ms) : \E f \in 1..Len(FieldNames) : FieldNames[f] = ms[k][1]
        /\ \A j, k \in 1..Len(ms) : j < k => FieldIndex(ms[j][1]) < FieldIndex(ms[k][1])
        /\ \A f \in 6..9 : \E k \in 1..Len(ms) : ms[k][1] = FieldNames[f]

(* C15: a valid canonical document that is read and written again, with no  *)
(* change in between, comes out identical: same members, order, values and  *)
(* omitted-or-null form.                                                    *)
C15_RoundTrip ==
    (lpc = "written" /\ In.kind = "json" /\ ValidCanonical(In.doc)) =>
        written[1] = In.doc

TagsOf(l) == [title |-> l.title, artist |-> l.artist, year |-> l.year,
              album |-> l.album, track |-> l.track]

(* the stream carries no tag or comment data, and its audio decodes *)
Tagless ==
    \/ In.kind = "mp3" /\ In.tag = "absent"
    \/ In.kind \in {"flac", "ogg"} /\ In.tag # "malformed"
          /\ (In.tag = "absent" \/ In.comments = <<>>)
    \/ In.kind = "wav"
AudioDecodes == ~In.corrupt /\ (In.kind = "mp3" => In.frames # <<>>)

(* C17: a stream without tag or comment data, and every WAV stream, decodes *)
(* to a container whose title, artist, album, year and track are absent;    *)
(* among streams whose audio decodes only a malformed tag makes the decode  *)
(* fail.                                                                    *)
C17_MissingTagsAreNotErrors ==
    (In.kind # "json" /\ lpc \in {"decoded", "failed"} /\ AudioDecodes) =>
        /\ Tagless => lpc = "decoded" /\ TagsOf(lilac[1]) = NoTags
        /\ lpc = "failed" => In.tag = "malformed"

C17_Witness ==
    /\ lpc = "decoded" /\ In.kind = "mp3" /\ In.tag = "absent"
    /\ TagsOf(lilac[1]) = NoTags /\ Len(lilac[1].samples) = 4

(* the metadata rules, read off a comment list *)
FirstValue(cs, name) ==
    LET hits == {k \in 1..Len(cs) : to_ascii_uppercase(cs[k][1]) = name}
    IN  IF hits = {} THEN None
        ELSE Some(cs[CHOOSE k \in hits : \A j \in hits : k <= j][2])

RECURSIVE JoinedArtists(_)
JoinedArtists(cs) ==
    IF cs = <<>> THEN None
    ELSE LET rest == JoinedArtists(Tail(cs))
         IN  IF to_ascii_uppercase(cs[1][1]) # "ARTIST" THEN rest
             ELSE IF rest = None THEN Some(cs[1][2])
             ELSE Some(cs[1][2] \o ", " \o rest[1])

CommentRules(cs) ==
    [title |-> FirstValue(cs, "TITLE"),
     artist |-> JoinedArtists(cs),
     year |-> None,
     album |-> FirstValue(cs, "ALBUM"),
     track |-> IF FirstValue(cs, "TRACKNUMBER") = None THEN None
               ELSE IF FirstValue(cs, "TRACKNUMBER")[1] = "3" THEN Some(3)
               ELSE None]

(* C18: for every comment list the FLAC and the OGG adapter give the same   *)
(* metadata: title and album of the first TITLE and ALBUM comment, the      *)
(* ARTIST values joined with ", ", and an absent track, not an error, when  *)
(* the TRACKNUMBER value is not an integer.                                 *)
C18_SameCommentRules ==
    (In.kind \in {"flac", "ogg"} /\ In.tag = "present" /\ lpc \in {"decoded", "failed"}) =>
        /\ lpc = "decoded"
        /\ TagsOf(lilac[1]) = CommentRules(In.comments)

(* ---------------------------------------------------------------------- *)
(* Properties of the batch: reporting and the order of the steps           *)
(* ---------------------------------------------------------------------- *)

(* C16: no outcome line is printed before every worker has returned: from   *)
(* the first printed line on no decode, encode or delete step happens, and  *)
(* the lines are printed one at a time.                                     *)
C16_PrintAfterJoin ==
    [][(printed > 0 \/ printed' > 0) =>
          /\ \A i \in Workers : Returned(i)
          /\ UNCHANGED <<fs, inode, dirs, pc, job, results>>
          /\ printed' \in {printed, printed + 1}
          /\ printed' <= Len(results)]_vars

C16_Witness ==
    /\ batch = "done" /\ printed = NumFiles
    /\ \E i \in Paths : pc[i] = "ok" /\ job[i].encoder # "-"
    /\ \E j \in Workers : pc[j] = "err"

(* the steps of transcode in their order, and the step each recorded        *)
(* failure belongs to                                                       *)
StepOrder == <<"open", "decode", "mkdir", "create", "write", "remove", "ok">>
StepIndex(step) == CHOOSE k \in 1..Len(StepOrder) : StepOrder[k] = step
StagesOf(step) ==
    CASE step = "open" -> {"glob", "open"}
      [] step = "decode" -> {"sniff", "decode", "name"}
      [] step = "mkdir" -> {"mkdir"}
      [] step \in {"create", "write"} -> {"encode"}
      [] step = "remove" -> {"remove"}

(* C19: a worker goes through open, sniff and decode, output path, output   *)
(* directories, encode, delete in that order; a step that fails ends the    *)
(* file's processing with that failure as the file's outcome, and a file    *)
(* whose open or decode failed has created no directory and no file.        *)
C19_StepsInOrder ==
    [][\A i \in Workers :
          /\ pc[i] \in {"ok", "err"} => pc'[i] = pc[i] /\ job'[i] = job[i]
          /\ (pc[i] \notin {"ok", "err"} /\ pc'[i] # pc[i]) =>
                \/ /\ pc'[i] \in {"mkdir", "create", "write", "remove", "decode"}
                   /\ StepIndex(pc'[i]) = StepIndex(pc[i]) + 1
                \/ /\ pc'[i] = "ok" /\ pc[i] = (IF keep THEN "write" ELSE "remove")
                   /\ job'[i].outcome.status = "ok"
                \/ /\ pc'[i] = "err"
                   /\ job'[i].outcome.status = "err"
                   /\ job'[i].outcome.stage \in StagesOf(pc[i])
                   /\ pc[i] \in {"open", "decode"} =>
                         /\ job'[i].outfile = <<>> /\ job'[i].writer = 0
                         /\ UNCHANGED <<fs, inode, dirs>>
          /\ dirs' # dirs => \E j \in Workers : pc[j] = "mkdir" /\ pc'[j] = "create"
          /\ DOMAIN fs' \ DOMAIN fs # {} =>
                \E j \in Workers : pc[j] = "create" /\ pc'[j] = "write"]_vars

(* ====================================================================== *)
(* The interactive player, cli/src/interactive.rs                          *)
(*                                                                         *)
(* Durations are in milliseconds. The polling thread is the source of the  *)
(* Input and Tick events; each action below is one iteration of the loop   *)
(* of main on one event. The stopwatch holds, in place of the Instant      *)
(* `started`, the time `since` that has passed since it while it runs;     *)
(* `started` is never read while the stopwatch is stopped, and `since` is  *)
(* 0 then.                                                                 *)
(* ====================================================================== *)

(* number of files named on the command line *)
NumSongs == 2
(* longest time, in steps of TimeStep, that a stopwatch measures *)
MaxTime == 4
(* number of steps the volume is taken below its initial value *)
MaxVolumeKeys == 2

(* the time, in ms, that passes between two events *)
TimeStep == 500

(* the files that can be named: what Lilac::read_file gives for each *)
PlayerLibrary ==
    << [stem |-> "a", readable |-> TRUE,
        lilac |-> Container(AllTags, 1, 1000, 16, Zeros(1500))],
       [stem |-> "b", readable |-> TRUE,
        lilac |-> Container(NoTags, 2, 1000, 24, Zeros(2))],
       [stem |-> "c", readable |-> TRUE,
        lilac |-> Container(SomeTags, 1, 44100, 16, <<>>)],
       [stem |-> "d", readable |-> FALSE,
        lilac |-> Container(NoTags, 1, 1000, 16, <<>>)],
       [stem |-> "e", readable |-> TRUE,
        lilac |-> Container(NoTags, 1, 500, 16, Zeros(2))] >>

(* Queue::new, lines 36-54: the files that load, in the order given *)
Queue_new(files_) ==
    [songs |-> SelectSeq(files_, LAMBDA f : PlayerLibrary[f].readable), cursor |-> 0]

(* Queue::is_empty, lines 55-57 *)
Queue_is_empty(q) == q.songs = <<>>

(* Queue::current, lines 59-65 *)
Queue_current(q) ==
    [idx |-> q.cursor, lilac |-> PlayerLibrary[q.songs[q.cursor + 1]].lilac]

(* Queue::files, lines 66-71 *)
Queue_files(q) == [k \in 1..Len(q.songs) |-> PlayerLibrary[q.songs[k]].stem]

(* a next that goes round to the first song after the last *)
Queue_nextWrapping(q) ==
    IF q.cursor = Len(q.songs) - 1 THEN [ok |-> TRUE, q |-> [q EXCEPT !.cursor = 0]]
    ELSE [ok |-> TRUE, q |-> [q EXCEPT !.cursor = q.cursor + 1]]

(* Queue::next, lines 73-80: the returned flag and the queue after the call *)
Queue_next(q) ==
    IF q.cursor = Len(q.songs) - 1 THEN [ok |-> FALSE, q |-> q]
    ELSE [ok |-> TRUE, q |-> [q EXCEPT !.cursor = q.cursor + 1]]

(* Queue::prev, lines 81-88 *)
Queue_prev(q) ==
    IF q.cursor = 0 THEN [ok |-> FALSE, q |-> q]
    ELSE [ok |-> TRUE, q |-> [q EXCEPT !.cursor = q.cursor - 1]]

(* line 261: while queue.prev() {} *)
RECURSIVE Queue_rewind(_)
Queue_rewind(q) == IF Queue_prev(q).ok THEN Queue_rewind(Queue_prev(q).q) ELSE q

(* Stopwatch, lines 91-133 *)
Stopwatch_new == [time |-> 0, since |-> 0, running |-> FALSE]
Stopwatch_start(w) == IF w.running THEN w ELSE [w EXCEPT !.running = TRUE, !.since = 0]
Stopwatch_stop(w) ==
    IF ~w.running THEN w
    ELSE [w EXCEPT !.running = FALSE, !.time = w.time + w.since, !.since = 0]
(* a reset that also stops the stopwatch *)
Stopwatch_resetStopped(w) == [w EXCEPT !.time = 0, !.since = 0, !.running = FALSE]
Stopwatch_reset(w) == [w EXCEPT !.time = 0, !.since = 0]
Stopwatch_time(w) == IF w.running THEN w.time + w.since ELSE w.time

(* Option<String>::unwrap_or("Unknown") of Lilac::title / artist / album on *)
(* a container whose tags are strings                                       *)
unwrap_or_Unknown(o) == IF o = None THEN "Unknown" ELSE o[1]

(* MetadataState::read, lines 355-366 *)
MetadataState_read(l) ==
    [title |-> unwrap_or_Unknown(l.title), artist |-> unwrap_or_Unknown(l.artist),
     album |-> unwrap_or_Unknown(l.album), channels |-> l.channels,
     sample_rate |-> l.sample_rate, bit_depth |-> l.bit_depth]

(* InfoState::read, lines 343-354 *)
InfoState_read(q) ==
    [metadata |-> MetadataState_read(Queue_current(q).lilac),
     queue |-> [queue |-> Queue_files(q), current |-> Queue_current(q).idx]]

(* the Sink after set_volume, append and play or pause: lines 181-183 and   *)
(* 195-201                                                                  *)
Sink_with(q, st) ==
    [song |-> q.songs[q.cursor + 1], volume |-> st.controls.volume,
     paused |-> ~st.controls.playback.playing]

(* the macro reset!, lines 185-205, once the new Sink exists, on the        *)
(* player p = [queue, state, sink, stopwatch]: None when source() panics    *)
reset(p) ==
    LET src == Lilac_source(Queue_current(p.queue).lilac)
    IN  IF src = None THEN None
        ELSE Some([queue |-> p.queue,
                   state |-> [p.state EXCEPT
                                !.controls.playback.played = 0,
                                !.controls.playback.duration = total_duration(src[1])[1],
                                !.info = InfoState_read(p.queue)],
                   sink |-> Sink_with(p.queue, p.state),
                   stopwatch |-> Stopwatch_reset(p.stopwatch)])

Player == [queue |-> queue, state |-> state, sink |-> sink, stopwatch |-> stopwatch]

(* the loop goes on with player p *)
Continue(p) ==
    /\ queue' = p.queue /\ state' = p.state /\ sink' = p.sink
    /\ stopwatch' = p.stopwatch /\ ppc' = "loop"

(* the loop is left at reset!: Sink::try_new fails and `?` returns, or      *)
(* source() panics                                                          *)
Leave(p, how) ==
    /\ queue' = p.queue /\ state' = p.state /\ sink' = p.sink
    /\ stopwatch' = p.stopwatch /\ ppc' = how

(* reset!() on player p, with the audio device there or gone *)
Rebuild(p) ==
    \E device \in BOOLEAN :
        IF ~device THEN Leave(p, "failed")
        ELSE IF reset(p) = None THEN Leave(p, "panicked")
        ELSE Continue(reset(p)[1])

PlayerInit ==
    /\ TranscoderIdle
    /\ LibIdle
    /\ PollIdle
    /\ args \in [1..NumSongs -> 1..Len(PlayerLibrary)]
    /\ queue = <<>> /\ state = <<>> /\ sink = <<>> /\ stopwatch = <<>>
    /\ ppc = "loading"

notplayer == <<tvars, libvars, pollvars>>

(* main, lines 136-183: load the queue, open the device, build the first    *)
(* source and the state                                                     *)
Load ==
    /\ ppc = "loading"
    /\ LET q == Queue_new(args)
           src == Lilac_source(Queue_current(q).lilac)
           st == [controls |->
                     [playback |-> [playing |-> FALSE, played |-> 0,
                                    duration |-> total_duration(src[1])[1]],
                      volume |-> 100],
                  info |-> InfoState_read(q)]
       IN  /\ queue' = q
           /\ IF Queue_is_empty(q)
              THEN ppc' = "returned" /\ UNCHANGED <<state, sink, stopwatch>>
              ELSE \E device \in BOOLEAN :
                     IF ~device
                     THEN ppc' = "failed" /\ UNCHANGED <<state, sink, stopwatch>>
                     ELSE IF src = None
                     THEN ppc' = "panicked" /\ UNCHANGED <<state, sink, stopwatch>>
                     ELSE /\ state' = st
                          /\ sink' = [Sink_with(q, st) EXCEPT !.paused = TRUE]
                          /\ stopwatch' = Stopwatch_new
                          /\ ppc' = "loop"
    /\ UNCHANGED args
    /\ UNCHANGED notplayer

(* lines 212-221: Space *)
KeySpace ==
    /\ ppc = "loop"
    /\ LET playing == ~state.controls.playback.playing
       IN  /\ state' = [state EXCEPT !.controls.playback.playing = playing]
           /\ sink' = [sink EXCEPT !.paused = ~playing]
           /\ stopwatch' = IF playing THEN Stopwatch_start(stopwatch)
                           ELSE Stopwatch_stop(stopwatch)
    /\ UNCHANGED <<args, queue, ppc>>
    /\ UNCHANGED notplayer

(* lines 223-228: Right *)
KeyRight ==
    /\ ppc = "loop"
    /\ IF ~Queue_next(queue).ok
       THEN UNCHANGED <<queue, state, sink, stopwatch, ppc>>
       ELSE Rebuild([Player EXCEPT !.queue = Queue_next(queue).q])
    /\ UNCHANGED args
    /\ UNCHANGED notplayer

(* lines 229-234: Left *)
KeyLeft ==
    /\ ppc = "loop"
    /\ Rebuild([Player EXCEPT !.queue = IF Stopwatch_time(stopwatch) < 2000
                                        THEN Queue_prev(queue).q ELSE queue])
    /\ UNCHANGED args
    /\ UNCHANGED notplayer

(* lines 236-241: Up *)
KeyUp ==
    /\ ppc = "loop"
    /\ IF state.controls.volume < 100
       THEN /\ state' = [state EXCEPT !.controls.volume = state.controls.volume + 1]
            /\ sink' = [sink EXCEPT !.volume = state.controls.volume + 1]
       ELSE UNCHANGED <<state, sink>>
    /\ UNCHANGED <<args, queue, stopwatch, ppc>>
    /\ UNCHANGED notplayer

(* lines 242-247: Down *)
KeyDown ==
    /\ ppc = "loop"
    /\ state.controls.volume > 100 - MaxVolumeKeys
    /\ IF state.controls.volume > 0
       THEN /\ state' = [state EXCEPT !.controls.volume = state.controls.volume - 1]
            /\ sink' = [sink EXCEPT !.volume = state.controls.volume - 1]
       ELSE UNCHANGED <<state, sink>>
    /\ UNCHANGED <<args, queue, stopwatch, ppc>>
    /\ UNCHANGED notplayer

(* line 249 and lines 273-281: Esc or q *)
KeyQuit ==
    /\ ppc = "loop"
    /\ ppc' = "returned"
    /\ UNCHANGED <<args, queue, state, sink, stopwatch>>
    /\ UNCHANGED notplayer

(* lines 253-269: Tick *)
Tick ==
    /\ ppc = "loop"
    /\ LET played == Stopwatch_time(stopwatch)
           st == [state EXCEPT !.controls.playback.played = played]
       IN  IF played >= st.controls.playback.duration /\ st.controls.playback.playing
           THEN IF Queue_next(queue).ok
                THEN Rebuild([Player EXCEPT !.queue = Queue_next(queue).q,
                                            !.state = st])
                ELSE Rebuild([queue |-> Queue_rewind(queue),
                              state |-> [st EXCEPT !.controls.playback.playing = FALSE],
                              sink |-> [sink EXCEPT !.paused = TRUE],
                              stopwatch |-> Stopwatch_stop(stopwatch)])
           ELSE Continue([Player EXCEPT !.state = st])
    /\ UNCHANGED args
    /\ UNCHANGED notplayer

(* time passes between two events, seen by a running stopwatch *)
Elapse ==
    /\ ppc = "loop"
    /\ stopwatch.running
    /\ stopwatch.time + stopwatch.since + TimeStep <= MaxTime * TimeStep
    /\ stopwatch' = [stopwatch EXCEPT !.since = stopwatch.since + TimeStep]
    /\ UNCHANGED <<args, queue, state, sink, ppc>>
    /\ UNCHANGED notplayer

PlayerNext ==
    \/ Load
    \/ KeySpace
    \/ KeyRight
    \/ KeyLeft
    \/ KeyUp
    \/ KeyDown
    \/ KeyQuit
    \/ Tick
    \/ Elapse

PlayerSpec == PlayerInit /\ [][PlayerNext]_vars

PlayerTypeOK ==
    /\ ppc \in {"loading", "loop", "returned", "failed", "panicked"}
    /\ ppc = "loop" =>
          /\ state.controls.volume \in 0..100
          /\ state.controls.playback.playing \in BOOLEAN
          /\ stopwatch.time + stopwatch.since <= MaxTime * TimeStep

(* what the screen shows is the song at the queue cursor *)
ShowsCurrent(q, st, sk) ==
    LET l == PlayerLibrary[q.songs[q.cursor + 1]].lilac
    IN  /\ st.controls.playback.duration =
              (Len(l.samples) \div l.channels) \div (l.sample_rate \div 1000)
        /\ st.info.metadata = MetadataState_read(l)
        /\ st.info.queue.current = q.cursor
        /\ sk.song = q.songs[q.cursor + 1]

(* the step has rebuilt the sink and the source: no time has elapsed, the   *)
(* volume is the one before, and the play/pause state is the one before,    *)
(* but for the pause at the end of the last track                           *)
Rebuilt ==
    /\ ShowsCurrent(queue', state', sink')
    /\ state'.controls.playback.played = 0
    /\ Stopwatch_time(stopwatch') = 0
    /\ state'.controls.volume = state.controls.volume
    /\ sink'.volume = state.controls.volume
    /\ sink'.paused = ~state'.controls.playback.playing
    /\ \/ state'.controls.playback.playing = state.controls.playback.playing
       \/ /\ queue.cursor = Len(queue.songs) - 1
          /\ queue'.cursor = 0
          /\ ~state'.controls.playback.playing

(* C20: in the interactive player, after any sequence of key and tick       *)
(* events, the displayed duration, metadata and queue index are those of    *)
(* the song at the queue cursor: every step that changes the cursor (Right, *)
(* Left, end of track) rebuilds the sink and the source from that song in   *)
(* the same step, which sets the elapsed time to 0 and leaves the           *)
(* play/pause state and the volume unchanged. The one step set aside is the *)
(* one in which Sink::try_new fails and main returns its error.             *)
C20_DisplayFollowsCursor ==
    [][ /\ ppc' = "loop" => ShowsCurrent(queue', state', sink')
        /\ (ppc = "loop" /\ queue'.cursor # queue.cursor)
              => \/ ppc' = "failed"
                 \/ ppc' = "loop" /\ Rebuilt ]_vars

(* a Tick finds the current track played to its end *)
TrackEnded ==
    /\ state.controls.playback.playing
    /\ Stopwatch_time(stopwatch) >= state.controls.playback.duration

(* C21: on a Tick while playing with elapsed time >= the reported duration  *)
(* of the current track, the cursor advances by exactly one and playback    *)
(* continues if a next track exists, and the cursor returns to 0, playback  *)
(* becomes paused and the elapsed time is reset to 0 if the track is the    *)
(* last one; a Tick while paused, or with elapsed time < duration, changes  *)
(* neither the cursor nor the play state. The one step set aside is the one *)
(* in which Sink::try_new fails and main returns its error.                 *)
C21_TickAtEndOfTrack ==
    [][ Tick =>
          /\ (TrackEnded /\ queue.cursor < Len(queue.songs) - 1)
                => \/ ppc' = "failed"
                   \/ /\ ppc' = "loop"
                      /\ queue'.cursor = queue.cursor + 1
                      /\ state'.controls.playback.playing
                      /\ ~sink'.paused
                      /\ stopwatch'.running
          /\ (TrackEnded /\ queue.cursor = Len(queue.songs) - 1)
                => \/ ppc' = "failed"
                   \/ /\ ppc' = "loop"
                      /\ queue'.cursor = 0
                      /\ ~state'.controls.playback.playing
                      /\ sink'.paused
                      /\ state'.controls.playback.played = 0
                      /\ Stopwatch_time(stopwatch') = 0
          /\ ~TrackEnded
                => /\ ppc' = "loop"
                   /\ queue'.cursor = queue.cursor
                   /\ state'.controls.playback.playing = state.controls.playback.playing
      ]_vars

(* C22: Lilac::source completes and reports a duration for every container  *)
(* that satisfies the data model (channels >= 1, sample rate > 0, bit depth *)
(* in {8, 16, 24, 32}), sample rates from 1 to 999 Hz included: neither     *)
(* divisor of the duration computation is zero.                             *)
C22_SourceCompletes ==
    (/\ lpc \in {"playing", "panicked"}
     /\ InputChannels >= 1
     /\ InputRate > 0
     /\ InputDepth \in {8, 16, 24, 32})
        => /\ lpc = "playing"
           /\ total_duration(source[1]) # None
           /\ InputChannels # 0
           /\ InputRate \div 1000 # 0

(* C23: for every file whose outcome is a success (input path, output path) *)
(* the output file exists when the batch completes and holds the encoding   *)
(* of that input's container, for every output template, '%F.%e' with the   *)
(* retention flag off included.                                             *)
C23_OutputExists ==
    batch = "done" =>
        \A i \in Paths :
            job[i].outcome.status = "ok" =>
                /\ Exists(job[i].outcome.out)
                /\ Content(job[i].outcome.out) = Encode(job[i].format, job[i].lilac[1])

(* the text sub occurs in the text t *)
Occurs(sub, t) ==
    \E k \in 0..(Len(t) - Len(sub)) : SubSeq(t, k + 1, k + Len(sub)) = sub

(* C24: template substitution is single-pass with respect to inserted text:  *)
(* the text inserted for a token of the pattern (a stem, title, artist or    *)
(* album that itself contains '%E', '%e', '%T', '%A' or '%a') is in the      *)
(* output path literally, never substituted again by a later token.          *)
C24_InsertedTextIsLiteral ==
    \A i \in Paths :
        job[i].lilac # None =>
            \A c \in {"F", "E", "e", "T", "A", "a"} :
                Occurs(<<"%", c>>, output) =>
                    Occurs(TokenValues(i)[c], job[i].outfile)

(* C25: in the interactive player the queue cursor is a valid index in      *)
(* every reachable state, 0 <= cursor < number of loaded songs, after any   *)
(* sequence of Right, Left and Tick events; Queue::next at the last song    *)
(* and Queue::prev at the first song leave the cursor unchanged and return  *)
(* false; the event loop is never entered with an empty queue.              *)
C25_CursorValid ==
    /\ ppc = "loop" => ~Queue_is_empty(queue)
    /\ (ppc \in {"loop", "failed", "panicked"} \/ (ppc = "returned" /\ ~Queue_is_empty(queue)))
          => /\ queue.cursor >= 0
             /\ queue.cursor < Len(queue.songs)
             /\ queue.cursor = Len(queue.songs) - 1
                   => Queue_next(queue) = [ok |-> FALSE, q |-> queue]
             /\ queue.cursor = 0
                   => Queue_prev(queue) = [ok |-> FALSE, q |-> queue]

(* the last of two songs is current, and it is the one shown *)
C25_Witness ==
    /\ ppc = "loop"
    /\ Len(queue.songs) = 2
    /\ queue.cursor = 1
    /\ state.info.queue.current = 1

(* C26: in every reachable state of the interactive loop the stopwatch is   *)
(* running exactly when the playback state is playing, and the sink is      *)
(* paused exactly when it is not, after any sequence of Space, Right, Left  *)
(* and Tick events: the elapsed time does not advance while paused, and it  *)
(* restarts from 0 after every track change.                                *)
C26_StopwatchFollowsPlayback ==
    [][ /\ ppc' = "loop" =>
              /\ stopwatch'.running = state'.controls.playback.playing
              /\ sink'.paused = ~state'.controls.playback.playing
        /\ (ppc = "loop" /\ ppc' = "loop") =>
              /\ (~state.controls.playback.playing /\ ~state'.controls.playback.playing)
                    => Stopwatch_time(stopwatch') <= Stopwatch_time(stopwatch)
              /\ sink'.song # sink.song => Stopwatch_time(stopwatch') = 0
              /\ queue'.cursor # queue.cursor => Stopwatch_time(stopwatch') = 0
      ]_vars

(* a track change while playing: the stopwatch runs on from 0 *)
C26_Witness ==
    /\ ppc = "loop"
    /\ queue.cursor = 1
    /\ state.controls.playback.playing
    /\ stopwatch.running
    /\ ~sink.paused
    /\ Stopwatch_time(stopwatch) = TimeStep

(* ====================================================================== *)
(* The polling thread, cli/src/interactive.rs:289-309                      *)
(*                                                                         *)
(* Time is in ms and passes in steps of PollStep, inside event::poll and   *)
(* between any two statements of the thread (the scheduler may run it      *)
(* late).                                                                  *)
(* ====================================================================== *)

(* line 21 *)
TICK_RATE == 100

(* the step, in ms, in which time passes *)
PollStep == 50

(* number of steps past TICK_RATE that last_tick is let grow old *)
MaxLate == 1

(* number of events sent on the channel *)
MaxEvents == 3

(* terminal events: three keys and one event that is not a key *)
TerminalEvents == {"q", "Esc", " ", "Resize"}

IsKey(e) == e # "Resize"
IsQuit(e) == e \in {"q", "Esc"}

(* Duration - Duration: None when the result would be negative, where Sub  *)
(* for Duration panics                                                     *)
Duration_sub(a, b) == IF b > a THEN None ELSE Some(a - b)

PollInit ==
    /\ TranscoderIdle
    /\ LibIdle
    /\ PlayerIdle
    /\ last_tick = 0 /\ timeout = 0 /\ event = <<>> /\ tx = <<>> /\ tpc = "top"

notpoll == <<tvars, libvars, playervars>>

(* line 292, the argument: TICK_RATE - last_tick.elapsed() *)
ComputeTimeout ==
    /\ tpc = "top"
    /\ LET t == Duration_sub(TICK_RATE, last_tick)
       IN  IF t = None
           THEN tpc' = "panicked" /\ timeout' = timeout
           ELSE tpc' = "poll" /\ timeout' = t[1]
    /\ UNCHANGED <<last_tick, event, tx>>
    /\ UNCHANGED notpoll

(* line 292, event::poll: an event is there within the timeout *)
PollReady ==
    /\ tpc = "poll"
    /\ \E wait \in {w \in 0..timeout : w % PollStep = 0} :
          last_tick' = last_tick + wait
    /\ tpc' = "read"
    /\ UNCHANGED <<timeout, event, tx>>
    /\ UNCHANGED notpoll

(* line 292, event::poll: the timeout passes with no event *)
PollTimedOut ==
    /\ tpc = "poll"
    /\ last_tick' = last_tick + timeout
    /\ tpc' = "check"
    /\ UNCHANGED <<timeout, event, tx>>
    /\ UNCHANGED notpoll

(* line 292, event::poll or line 293, event::read returns an error: poll   *)
(* returns it and the thread exits the process (lines 157-162)             *)
PollError ==
    /\ tpc \in {"poll", "read"}
    /\ tpc' = "exited"
    /\ UNCHANGED <<last_tick, timeout, event, tx>>
    /\ UNCHANGED notpoll

(* lines 293-303: read the event; a key is sent, a quit key ends the loop *)
ReadEvent ==
    /\ tpc = "read"
    /\ Len(tx) < MaxEvents
    /\ \E e \in TerminalEvents :
          /\ event' = Some(e)
          /\ tx' = IF IsKey(e) THEN Append(tx, e) ELSE tx
          /\ tpc' = IF IsKey(e) /\ IsQuit(e) THEN "returned" ELSE "check"
    /\ UNCHANGED <<last_tick, timeout>>
    /\ UNCHANGED notpoll

(* lines 304-307: a Tick when TICK_RATE has passed since the last one *)
CheckTick ==
    /\ tpc = "check"
    /\ IF last_tick >= TICK_RATE
       THEN /\ Len(tx) < MaxEvents
            /\ tx' = Append(tx, "Tick")
            /\ last_tick' = 0
       ELSE UNCHANGED <<tx, last_tick>>
    /\ tpc' = "top"
    /\ UNCHANGED <<timeout, event>>
    /\ UNCHANGED notpoll

(* time passes between two statements of the thread *)
RunLate ==
    /\ tpc \in {"top", "read", "check"}
    /\ last_tick + PollStep <= TICK_RATE + MaxLate * PollStep
    /\ last_tick' = last_tick + PollStep
    /\ UNCHANGED <<timeout, event, tx, tpc>>
    /\ UNCHANGED notpoll

PollNext ==
    \/ ComputeTimeout
    \/ PollReady
    \/ PollTimedOut
    \/ PollError
    \/ ReadEvent
    \/ CheckTick
    \/ RunLate

PollSpec == PollInit /\ [][PollNext]_vars

PollTypeOK ==
    /\ tpc \in {"top", "poll", "read", "check", "returned", "exited", "panicked"}
    /\ last_tick \in 0..(TICK_RATE + MaxLate * PollStep)
    /\ timeout \in 0..TICK_RATE
    /\ Len(tx) <= MaxEvents

(* C27: until a quit key is read the polling thread keeps running and keeps *)
(* sending Tick events: for every timing of key events and of thread        *)
(* scheduling, each iteration computes the poll timeout TICK_RATE minus the *)
(* time elapsed since the last tick with that elapsed time <= TICK_RATE, so *)
(* the timeout is never negative and the thread never aborts.               *)
C27_TimeoutNeverNegative ==
    /\ tpc # "panicked"
    /\ tpc = "poll" => (timeout >= 0 /\ last_tick <= TICK_RATE)

====
